---- MODULE Spec2Model ----
(***************************************************************************)
(* A model of john-code: the agent orchestration loop (Agent.Run,         *)
(* Agent.RunTask, Agent.processTurn), the streaming decoders of the        *)
(* provider adapters (Anthropic, OpenAI chat completions, OpenAI           *)
(* responses, Gemini), the request/response correlation of the MCP         *)
(* client, the MCP manager, the background shell manager, the schema       *)
(* sanitizer of the Gemini adapter, the delegation of tasks to sub-agents  *)
(* with the session log, the call of an MCP-backed tool, the working       *)
(* directory of the Bash tool and the line selection of the Read tool.     *)
(* Each part is a state machine of its own with its own specification;     *)
(* the variables of the other parts stay at their initial values.          *)
(***************************************************************************)
EXTENDS Integers, Sequences, FiniteSets, TLC

VARIABLES
    \* ---- Agent (pkg/agent) ----
    mode,        \* "Run" (interactive loop) or "RunTask" (sub-agent, non-interactive)
    maxTurns,    \* the iteration bound of processTurn's for loop (50 or 10 by revision)
    script,      \* which tool calls the scripted provider puts in a tool-call response
    history,     \* a.history
    apc,         \* position of the agent's own goroutine
    i,           \* loop variable of processTurn
    tcIdx,       \* position in "for _, tc := range resp.ToolCalls" (1-based)
    resp,        \* the closure variable resp: <<>> is nil, <<m>> a message
    genErr,      \* the closure variable genErr: FALSE is nil
    gstate,      \* goroutine of the current GenerateStream call
    gout,        \* what that GenerateStream call is going to return
    fragsLeft,   \* fragments the call has still to send on ch
    linger,      \* a waitForToken command is still blocked on ch after the display quit
    late,        \* earlier GenerateStream goroutines still running that can finish
    leaked,      \* earlier GenerateStream goroutines blocked forever on ch
    turnErr,     \* what processTurn returned
    taskResult,  \* what RunTask returned: <<>> before it returns
    respLog,     \* kinds of the responses processTurn has taken in this turn
    nCalls,      \* GenerateStream calls started in this turn
    nRounds,     \* tool-execution rounds completed in this turn
    execLog,     \* tool calls dispatched in the current round, in order
    toolErrs,    \* tool calls of this turn that were unknown or failed
    \* ---- GenerateStream of the adapters (pkg/llm) ----
    adapter,     \* "anthropic", "openai_chat", "openai_responses" or "gemini"
    hasChan,     \* outputChan != nil (Generate passes nil)
    sstatus,     \* "sent" (the request), "reading", "finalize", "returned" (a
                 \* Message), "failed" (an error)
    statusCode,  \* resp.StatusCode (0 before the response)
    content,     \* finalMsg.Content
    sent,        \* the fragments sent on outputChan, in order
    builders,    \* toolBuilders / funcCallBuilders: key -> builder
    calls,       \* finalMsg.ToolCalls
    nEvents,     \* lines read from the response body
    toolCallIndex, \* the Gemini adapter's counter for synthesized call ids
    groups,      \* the tool-call event groups of the stream, in order of first appearance
    wellFormed,  \* the stream follows the backend's event protocol so far
    lastLine,    \* what the line read last was ("none" before the first)
    \* ---- mcp.Client (pkg/mcp) ----
    requestID,   \* c.requestID
    pending,     \* c.pending: id -> the response channel registered under it
    respChan,    \* the buffer of each caller's respChan (capacity 1)
    mu,          \* c.mu: "free" or its holder
    cpc,         \* position of each sendRequest caller
    cid,         \* the id each caller's request got (0: none yet)
    cres,        \* what each sendRequest returned (kind "none" before it returns)
    stdin,       \* ids of the requests written to the server's stdin
    stdout,      \* the lines the server has written and the scanner has not consumed
    nLines,      \* how many lines the server has written so far
    rpc,         \* position of the readResponses goroutine
    rresp,       \* the response readResponses is routing (<<>>: none)
    \* ---- mcp.Manager and Client.Connect (pkg/mcp) ----
    mgrPc,       \* "ready", or "connect" while ConnectServer holds m.mu
    inLoad,      \* LoadAndConnect is ranging over the configured servers
    todo,        \* the configured servers its range has not reached yet
    loadRes,     \* what LoadAndConnect returned ("none" before it returns)
    cur,         \* the name ConnectServer is connecting ("" when none)
    step,        \* the step Client.Connect is at
    cl,          \* the Client that ConnectServer has created and is connecting
    clients,     \* m.clients: name -> Client
    lastFailed,  \* the Client of the last Connect that failed (<<>>: none)
    outcome,     \* how the last ConnectServer for each name ended
    catalog,     \* what the last GetAllTools call returned
    catalogNow,  \* m.clients is still as that call saw it
    nConnects,   \* ConnectServer calls made outside LoadAndConnect
    \* ---- tools.ShellManager (pkg/tools) ----
    smMu,        \* sm.mu: "free", or held by "caller" (a Start, GetOutput or Kill call) or "watcher"
    nextID,      \* sm.nextID
    processes,   \* sm.processes: id -> BackgroundProcess
    outputBuf,   \* the bytes.Buffer b of each command's ThreadSafeBuffer
    bufMu,       \* the mutex m of each ThreadSafeBuffer: "free", or held by "caller" or "copier"
    osProc,      \* the OS process of each command: "none", "running", "exited", "reaped"
    pipe,        \* some process still holds the write end of the command's output pipe
    sig,         \* Kill has sent the termination signal to the command's process
    watcher,     \* position of the goroutine Start launches around cmd.Wait
    copier,      \* position of the goroutine of os/exec that copies the pipe into the buffer
    spc,         \* position of the call that holds sm.mu ("none": no call holds it)
    sop,         \* that call: its kind and the command number it names
    ret,         \* what the call that returned in the last step returned
    lastOut,     \* the text the latest GetOutput call returned for each command
    \* ---- sanitizeSchemaForGemini (pkg/llm/gemini.go) ----
    inSchema,    \* the schema of a tool as GenerateStream passes it
    outSchema,   \* what sanitizeSchemaForGemini returned for it
    sanPc,       \* "ready" before the call, "done" after it
    \* ---- Task delegation and session log (pkg/agent, pkg/tools/task.go) ----
    agents,      \* the agents in existence: the interactive one, then each sub-agent
                 \* a Task call of the one before it is running
    appends,     \* the calls of a.session.Append so far, in order
    sessionFile, \* how many events those calls wrote to the session file
    toolRounds,  \* how many responses with tool calls the scripted provider gave
    provider,    \* the provider of the run: any response within the budget, or one
                 \* that asks a sub-agent for a tool call in every round
    \* ---- A call of an MCP-backed tool (pkg/tools MCPTool, pkg/mcp CallTool) ----
    callPc,      \* how far the call has come, from sendRequest up to processTurn
    callResp,    \* what sendRequest got from the server for the tools/call request
    callOut,     \* what the function that returned last returned: a text and an error
    callMsg,     \* the tool message processTurn appended: <<>> is none yet
    \* ---- The Bash tool's working directory (pkg/tools BashTool) ----
    procCwd,     \* the working directory of the process (os.Chdir, os.Getwd)
    bashCwd,     \* t.cwd of every BashTool, in the order NewBashTool made them
    bashCall,    \* the last Execute call: its tool, command, directory and output
    bashCalls,   \* Execute calls so far
    \* ---- The Read tool (pkg/tools ReadTool) ----
    readArgs,    \* offset, limit and tail of the call and the lines of the file
    readOut      \* what Execute did: nothing yet, a result, an error or a panic

agentVars == <<mode, maxTurns, script, history, apc, i, tcIdx, resp, genErr, gstate,
               gout, fragsLeft, linger, late, leaked, turnErr, taskResult, respLog,
               nCalls, nRounds, execLog, toolErrs>>

streamVars == <<adapter, hasChan, sstatus, content, sent, builders, calls, nEvents,
                toolCallIndex, groups, wellFormed, lastLine, statusCode>>

mcpVars == <<requestID, pending, respChan, mu, cpc, cid, cres, stdin, stdout, nLines,
            rpc, rresp>>

mgrVars == <<mgrPc, inLoad, todo, loadRes, cur, step, cl, clients, lastFailed, outcome,
            catalog, catalogNow, nConnects>>

shVars == <<smMu, nextID, processes, outputBuf, bufMu, osProc, pipe, sig,
           watcher, copier, spc, sop, ret, lastOut>>

sanVars == <<inSchema, outSchema, sanPc>>

delVars == <<agents, appends, sessionFile, toolRounds, provider>>

callVars == <<callPc, callResp, callOut, callMsg>>

bashVars == <<procCwd, bashCwd, bashCall, bashCalls>>

readVars == <<readArgs, readOut>>

vars == <<agentVars, streamVars, mcpVars, mgrVars, shVars, sanVars, delVars, callVars, bashVars, readVars>>

\* what the actions of one part leave alone
exceptAgent == <<streamVars, mcpVars, mgrVars, shVars, sanVars, delVars, callVars, bashVars, readVars>>

exceptStream == <<agentVars, mcpVars, mgrVars, shVars, sanVars, delVars, callVars, bashVars, readVars>>

exceptMcp == <<agentVars, streamVars, mgrVars, shVars, sanVars, delVars, callVars, bashVars, readVars>>

exceptMgr == <<agentVars, streamVars, mcpVars, shVars, sanVars, delVars, callVars, bashVars, readVars>>

exceptSh == <<agentVars, streamVars, mcpVars, mgrVars, sanVars, delVars, callVars, bashVars, readVars>>

exceptSan == <<agentVars, streamVars, mcpVars, mgrVars, shVars, delVars, callVars, bashVars, readVars>>

\* the provider of a run stays the one the run began with
exceptDel ==
    <<agentVars, streamVars, mcpVars, mgrVars, shVars, sanVars, callVars, bashVars, readVars,
      provider>>

exceptCall == <<agentVars, streamVars, mcpVars, mgrVars, shVars, sanVars, delVars, bashVars, readVars>>

exceptBash == <<agentVars, streamVars, mcpVars, mgrVars, shVars, sanVars, delVars, callVars, readVars>>

exceptRead == <<agentVars, streamVars, mcpVars, mgrVars, shVars, sanVars, delVars, callVars, bashVars>>

----------------------------------------------------------------------------
(* Bounds of the model *)

\* fragments one GenerateStream call sends at most
MaxFrags == 1
\* abandoned GenerateStream goroutines at most
MaxOrphans == 1
\* Run accepts another user input while the history is at most this long
MaxHistStart == 2

\* lines one response stream has at most
MaxEvents == 4
\* content-block indexes / call ids a stream uses at most
MaxGroups == 2
\* concurrent sendRequest callers
NumCallers == 2
\* configured MCP servers
NumServers == 2
\* ConnectServer calls outside LoadAndConnect at most
MaxConnects == 1
\* response lines the server writes at most
MaxLines == 2
\* sendRequest calls made on one client at most
MaxRequests == 2
\* Start calls made at most
MaxStarts == 2
\* commands whose cmd.Start succeeds at most
MaxRunning == 1
\* chunks of output one command writes at most
MaxWrites == 1
\* nesting levels a tool schema has above its innermost value at most
MaxDepth == 3

(* Program constants *)

\* for i := 0; i < 50; i++
MaxTurnsNew == 50
\* for i := 0; i < 10; i++ (the other revision of the agent)
MaxTurnsOld == 10

----------------------------------------------------------------------------
(* The parts that are not running *)

StreamIdle ==
    /\ adapter = "none" /\ hasChan = FALSE /\ sstatus = "off"
    /\ content = <<>> /\ sent = <<>> /\ builders = <<>> /\ calls = <<>>
    /\ nEvents = 0 /\ toolCallIndex = 0 /\ groups = <<>> /\ wellFormed = TRUE
    /\ lastLine = "none" /\ statusCode = 0

Callers == 1..NumCallers

\* what a sendRequest call returned: its kind and the id of the response it got
Result(kind, id) == [kind |-> kind, ID |-> id]

NoResult == Result("none", 0)

McpIdle ==
    /\ requestID = 0 /\ pending = <<>> /\ mu = "free"
    /\ respChan = [c \in Callers |-> <<>>]
    /\ cpc = [c \in Callers |-> "off"]
    /\ cid = [c \in Callers |-> 0]
    /\ cres = [c \in Callers |-> NoResult]
    /\ stdin = {} /\ stdout = <<>> /\ nLines = 0 /\ rpc = "off" /\ rresp = <<>>

\* the configured server names
ServerNames == <<"alpha", "beta", "gamma", "delta">>

Servers == { ServerNames[k] : k \in 1..NumServers }

\* the Client NewClient returns: not connected, no tools, nothing done yet
NewClient == [connected |-> FALSE, tools |-> <<>>, closed |-> FALSE, log |-> <<>>]

MgrIdle ==
    /\ mgrPc = "off" /\ inLoad = FALSE /\ todo = {} /\ loadRes = "none"
    /\ cur = "" /\ step = "" /\ cl = NewClient /\ clients = <<>>
    /\ lastFailed = <<>> /\ outcome = [n \in Servers |-> "none"]
    /\ catalog = <<>> /\ catalogNow = FALSE /\ nConnects = 0

\* the commands Start is given, numbered in the order Start takes them
Cmds == 1..MaxStarts

\* what a ShellManager call returned: the id (Start), the text, done flag and
\* error (GetOutput), the error (Kill); os is the state the command's OS
\* process was in when Kill looked at it
Returned(kind, id, out, done, err, os) ==
    [kind |-> kind, id |-> id, out |-> out, done |-> done, err |-> err, os |-> os]

NoReturn == Returned("none", <<>>, <<>>, FALSE, "nil", "none")

NoCall == [kind |-> "none", n |-> 0]

\* var GlobalShellManager = &ShellManager{processes: make(map...), nextID: 1};
\* nothing has been started and no call is in progress
ShIdle ==
    /\ smMu = "free" /\ nextID = 1 /\ processes = <<>>
    /\ outputBuf = [n \in Cmds |-> <<>>]
    /\ bufMu = [n \in Cmds |-> "free"]
    /\ osProc = [n \in Cmds |-> "none"]
    /\ pipe = [n \in Cmds |-> FALSE]
    /\ sig = [n \in Cmds |-> FALSE]
    /\ watcher = [n \in Cmds |-> "none"]
    /\ copier = [n \in Cmds |-> "none"]
    /\ spc = "none" /\ sop = NoCall /\ ret = NoReturn
    /\ lastOut = [n \in Cmds |-> <<>>]

\* A JSON value as encoding/json decodes it into interface{}: nil, a string,
\* a map[string]interface{} (its entries, key and value) or a []interface{}
\* (its items, under the key "")
JNil == [t |-> "nil", s |-> "", e |-> <<>>]
JStr(str) == [t |-> "str", s |-> str, e |-> <<>>]
JMap(entries) == [t |-> "map", s |-> "", e |-> entries]
JArr(items) == [t |-> "arr", s |-> "", e |-> items]
Field(key, val) == [k |-> key, v |-> val]

SanIdle == inSchema = JNil /\ outSchema = JNil /\ sanPc = "off"

\* no agent exists and nothing was logged
DelIdle ==
    agents = <<>> /\ appends = <<>> /\ sessionFile = 0 /\ toolRounds = 0 /\ provider = "off"

\* what a function returns: a text and an error ("nil": none)
Out(text, err) == [text |-> text, err |-> err]

\* the outcome of sendRequest for a tools/call request: a JSON-RPC error, or a
\* result with content blocks and the isError flag
CallResponse(kind, blocks, isError) ==
    [kind |-> kind, Content |-> blocks, IsError |-> isError]

\* no call of an MCP-backed tool is under way
CallIdle ==
    /\ callPc = "off"
    /\ callResp = CallResponse("none", <<>>, FALSE)
    /\ callOut = Out("", "nil")
    /\ callMsg = <<>>

\* one Execute call of a BashTool
BashCall(tool, cmd, arg, bg, dir, out) ==
    [tool |-> tool, cmd |-> cmd, arg |-> arg, bg |-> bg, dir |-> dir, out |-> out]

\* no BashTool exists
BashIdle ==
    /\ procCwd = ""
    /\ bashCwd = <<>>
    /\ bashCall = BashCall(0, "", "", FALSE, "", "")
    /\ bashCalls = 0

\* the arguments of a Read call and the number of lines of the file
ReadArgs(offset, limit, tail, total) ==
    [offset |-> offset, limit |-> limit, tail |-> tail, total |-> total]

\* what ReadTool.Execute did
ReadOut(kind, start, lines, skipped, more) ==
    [kind |-> kind, start |-> start, lines |-> lines, skipped |-> skipped, more |-> more]

\* no Read call is under way
ReadIdle ==
    /\ readArgs = ReadArgs(0, 0, 0, 0)
    /\ readOut = ReadOut("off", 0, <<>>, 0, 0)

\* the machines of the tools, all idle
ToolsIdle == CallIdle /\ BashIdle /\ ReadIdle

----------------------------------------------------------------------------
(* Conversation model (pkg/llm) *)

RoleUser == "user"
RoleAssistant == "assistant"
RoleSystem == "system"
RoleTool == "tool"

\* llm.ToolCall
ToolCall(id, name, args) == [ID |-> id, Name |-> name, Args |-> args]

\* llm.Message; ToolResult is <<>> (nil) or <<r>>
Message(role, text, tcs, result) ==
    [Role |-> role, Content |-> text, ToolCalls |-> tcs, ToolResult |-> result]

\* llm.ToolResult as processTurn builds it: ToolName is left at its zero value
ToolResult(id, text) == [ToolCallID |-> id, ToolName |-> "", Content |-> text]

\* the tools agent.New registers (a representative part of the catalog)
Registry == {"Bash", "Read", "Task"}

\* Tool.Execute fails on these arguments
ExecuteFails(tc) == tc.Args = "bad"

Last(s) == s[Len(s)]

IsPrefix(s, t) == Len(s) <= Len(t) /\ SubSeq(t, 1, Len(s)) = s

----------------------------------------------------------------------------
(* The scripted provider: what a GenerateStream call can return *)

\* texts of a plain assistant message
Texts == {"ans1", "ans2"}

\* the tool calls of the n-th response of a turn under script s; script 1 numbers
\* its calls afresh in every response, as the Gemini adapter does
ScriptCalls(s, n) ==
    IF s = 1
      THEN << ToolCall(<<0, 1>>, "Read", "good") >>
      ELSE << ToolCall(<<n, 1>>, "Task", "good"),
              ToolCall(<<n, 2>>, "Bash", "bad"),
              ToolCall(<<n, 3>>, "Nope", "good") >>

\* (nil, err) is <<>>; (msg, nil) is <<msg>>
Responses(s, n) ==
    { <<>> }
    \cup { << Message(RoleAssistant, t, <<>>, <<>>) >> : t \in Texts }
    \cup { << Message(RoleAssistant, IF s = 2 THEN "let me check" ELSE "",
                       ScriptCalls(s, n), <<>>) >> }

RespKind(r) ==
    IF r = <<>> THEN "error"
    ELSE IF Len(r[1].ToolCalls) = 0 THEN "plain" ELSE "tools"

----------------------------------------------------------------------------
(* Agent.New, Agent.Run, Agent.RunTask, Agent.processTurn *)

SystemPrompt == Message(RoleSystem, "SystemPrompt", <<>>, <<>>)

\* the history the Task tool's runner gives a sub-agent
TaskHistory ==
    << Message(RoleSystem, "sub-agent task", <<>>, <<>>),
       Message(RoleUser, "perform task", <<>>, <<>>) >>

AgentIdle ==
    /\ mode = "Run" /\ maxTurns = MaxTurnsNew /\ script = 1
    /\ history = <<>> /\ apc = "off" /\ i = 0 /\ tcIdx = 0
    /\ resp = <<>> /\ genErr = FALSE /\ gstate = "none" /\ gout = <<>>
    /\ fragsLeft = 0 /\ linger = FALSE /\ late = 0 /\ leaked = 0
    /\ turnErr = "none" /\ taskResult = <<>> /\ respLog = <<>>
    /\ nCalls = 0 /\ nRounds = 0 /\ execLog = <<>> /\ toolErrs = 0

AgentInit ==
    /\ mode \in {"Run", "RunTask"}
    /\ maxTurns \in {MaxTurnsNew, MaxTurnsOld}
    /\ script \in 1..2
    /\ history = IF mode = "Run" THEN << SystemPrompt >> ELSE TaskHistory
    /\ apc = IF mode = "Run" THEN "prompt" ELSE "loop"
    /\ i = 0 /\ tcIdx = 0
    /\ resp = <<>> /\ genErr = FALSE /\ gstate = "none" /\ gout = <<>>
    /\ fragsLeft = 0 /\ linger = FALSE /\ late = 0 /\ leaked = 0
    /\ turnErr = "none" /\ taskResult = <<>> /\ respLog = <<>>
    /\ nCalls = 0 /\ nRounds = 0 /\ execLog = <<>> /\ toolErrs = 0

UserMsg == Message(RoleUser, "input", <<>>, <<>>)

\* the user message written over the last entry instead of after it
AppendUserOverwrite(h) == Append(SubSeq(h, 1, Len(h) - 1), UserMsg)

\* Run: a.history = append(a.history, userMsg)
AppendUser(h) == Append(h, UserMsg)

\* Run: a non-empty input that is not exit/quit: append the user message and
\* call processTurn
UserInput ==
    /\ apc = "prompt"
    /\ Len(history) <= MaxHistStart
    /\ history' = AppendUser(history)
    /\ apc' = "loop"
    /\ i' = 0 /\ tcIdx' = 0
    /\ turnErr' = "none" /\ respLog' = <<>>
    /\ nCalls' = 0 /\ nRounds' = 0 /\ execLog' = <<>> /\ toolErrs' = 0
    /\ UNCHANGED <<mode, maxTurns, script, resp, genErr, gstate, gout, fragsLeft,
                   linger, late, leaked, taskResult>>
    /\ UNCHANGED exceptAgent

\* Run: input "exit" or "quit"
UserExit ==
    /\ apc = "prompt"
    /\ apc' = "exited"
    /\ UNCHANGED <<mode, maxTurns, script, history, i, tcIdx, resp, genErr, gstate,
                   gout, fragsLeft, linger, late, leaked, turnErr, taskResult,
                   respLog, nCalls, nRounds, execLog, toolErrs>>
    /\ UNCHANGED exceptAgent

LoopCondOffByOne == i <= maxTurns

\* the loop condition of processTurn
LoopCond == i < maxTurns

\* processTurn: one more iteration: make ch, resp, genErr and start the goroutine
\* that calls GenerateStream; then DisplayStream(ch) runs
StartGenerate ==
    /\ apc = "loop"
    /\ LoopCond
    /\ \E r \in Responses(script, nCalls + 1), f \in 0..MaxFrags :
          /\ gout' = r
          /\ fragsLeft' = f
    /\ gstate' = "running"
    /\ resp' = <<>> /\ genErr' = FALSE
    /\ linger' = FALSE
    /\ nCalls' = nCalls + 1
    /\ apc' = "display"
    /\ UNCHANGED <<mode, maxTurns, script, history, i, tcIdx, late, leaked, turnErr,
                   taskResult, respLog, nRounds, execLog, toolErrs>>
    /\ UNCHANGED exceptAgent

\* processTurn: the loop ran out: return fmt.Errorf("max turns reached")
MaxTurnsReached ==
    /\ apc = "loop"
    /\ ~LoopCond
    /\ turnErr' = "maxTurns"
    /\ apc' = "returned"
    /\ UNCHANGED <<mode, maxTurns, script, history, i, tcIdx, resp, genErr, gstate,
                   gout, fragsLeft, linger, late, leaked, taskResult, respLog,
                   nCalls, nRounds, execLog, toolErrs>>
    /\ UNCHANGED exceptAgent

\* the goroutine sends a fragment on the unbuffered ch; a waitForToken command
\* receives it (that of the running display, or the one left behind by a display
\* that has quit)
GenSend ==
    /\ gstate = "running"
    /\ fragsLeft > 0
    /\ apc = "display" \/ linger
    /\ fragsLeft' = fragsLeft - 1
    /\ linger' = IF apc = "display" THEN linger ELSE FALSE
    /\ UNCHANGED <<mode, maxTurns, script, history, apc, i, tcIdx, resp, genErr,
                   gstate, gout, late, leaked, turnErr, taskResult, respLog, nCalls,
                   nRounds, execLog, toolErrs>>
    /\ UNCHANGED exceptAgent

\* the goroutine: GenerateStream returns; resp, genErr = ...
GenReturn ==
    /\ gstate = "running"
    /\ fragsLeft = 0
    /\ resp' = gout
    /\ genErr' = (gout = <<>>)
    /\ gstate' = "assigned"
    /\ UNCHANGED <<mode, maxTurns, script, history, apc, i, tcIdx, gout, fragsLeft,
                   linger, late, leaked, turnErr, taskResult, respLog, nCalls,
                   nRounds, execLog, toolErrs>>
    /\ UNCHANGED exceptAgent

\* the goroutine: defer close(ch); the goroutine ends
GenClose ==
    /\ gstate = "assigned"
    /\ gstate' = "closed"
    /\ UNCHANGED <<mode, maxTurns, script, history, apc, i, tcIdx, resp, genErr, gout,
                   fragsLeft, linger, late, leaked, turnErr, taskResult, respLog,
                   nCalls, nRounds, execLog, toolErrs>>
    /\ UNCHANGED exceptAgent

\* DisplayStream: waitForToken sees ch closed: finishMsg, tea.Quit
DisplayFinish ==
    /\ apc = "display"
    /\ gstate = "closed"
    /\ apc' = "check"
    /\ UNCHANGED <<mode, maxTurns, script, history, i, tcIdx, resp, genErr, gstate,
                   gout, fragsLeft, linger, late, leaked, turnErr, taskResult,
                   respLog, nCalls, nRounds, execLog, toolErrs>>
    /\ UNCHANGED exceptAgent

\* DisplayStream returns for another reason: the user presses Ctrl+C (tea.Quit) or
\* p.Run() fails; a waitForToken command may still be blocked on ch
DisplayQuit ==
    /\ apc = "display"
    /\ gstate # "closed"
    /\ late + leaked < MaxOrphans
    /\ apc' = "check"
    /\ linger' = TRUE
    /\ UNCHANGED <<mode, maxTurns, script, history, i, tcIdx, resp, genErr, gstate,
                   gout, fragsLeft, late, leaked, turnErr, taskResult, respLog, nCalls,
                   nRounds, execLog, toolErrs>>
    /\ UNCHANGED exceptAgent

\* the goroutine of this iteration when processTurn goes on without it: it can
\* still finish when at most one lingering receive is all it waits for
CanStillFinish ==
    gstate = "assigned" \/ fragsLeft <= (IF linger THEN 1 ELSE 0)

TurnEndsOnText(m) == m.Content # ""

\* processTurn: if len(resp.ToolCalls) == 0 { return nil }
TurnEnds(m) == Len(m.ToolCalls) = 0

\* after DisplayStream, with whatever the call left appended as the assistant's
\* message and the turn ended without an error
AfterDisplayAppendsAnyway ==
    /\ apc = "check"
    /\ gstate' = "none"
    /\ linger' = FALSE
    /\ history' = Append(history, IF resp = <<>>
                                    THEN Message(RoleAssistant, "", <<>>, <<>>)
                                    ELSE resp[1])
    /\ turnErr' = "nil"
    /\ apc' = "returned"
    /\ UNCHANGED <<mode, maxTurns, script, i, tcIdx, resp, genErr, gout, fragsLeft, late,
                   leaked, taskResult, respLog, nCalls, nRounds, execLog, toolErrs>>
    /\ UNCHANGED exceptAgent

\* processTurn after DisplayStream: genErr, resp == nil, append the assistant
\* message, return when it has no tool calls
AfterDisplay ==
    /\ apc = "check"
    /\ gstate' = "none"
    /\ linger' = FALSE
    /\ late' = IF gstate # "closed" /\ CanStillFinish THEN late + 1 ELSE late
    /\ leaked' = IF gstate # "closed" /\ ~CanStillFinish THEN leaked + 1 ELSE leaked
    /\ IF genErr
         THEN /\ turnErr' = "genErr"
              /\ apc' = "returned"
              /\ respLog' = Append(respLog, "error")
              /\ UNCHANGED <<history, tcIdx, execLog>>
       ELSE IF resp = <<>>
         THEN /\ turnErr' = "noResp"
              /\ apc' = "returned"
              /\ UNCHANGED <<history, tcIdx, execLog, respLog>>
       ELSE /\ history' = Append(history, resp[1])
            /\ respLog' = Append(respLog, RespKind(resp))
            /\ IF TurnEnds(resp[1])
                 THEN /\ turnErr' = "nil"
                      /\ apc' = "returned"
                      /\ UNCHANGED <<tcIdx, execLog>>
                 ELSE /\ apc' = "tools"
                      /\ tcIdx' = 1
                      /\ execLog' = <<>>
                      /\ UNCHANGED turnErr
    /\ UNCHANGED <<mode, maxTurns, script, i, resp, genErr, gout, fragsLeft,
                   taskResult, nCalls, nRounds, toolErrs>>
    /\ UNCHANGED exceptAgent

ResultTextErrDropped(tc) ==
    IF tc.Name \notin Registry THEN <<"Error: Tool not found", tc.Name>>
    ELSE <<"output", tc.Name>>

\* the text of the ToolResult for tool call tc
ResultText(tc) ==
    IF tc.Name \notin Registry THEN <<"Error: Tool not found", tc.Name>>
    ELSE IF ExecuteFails(tc) THEN <<"Error executing tool", tc.Name>>
    ELSE <<"output", tc.Name>>

ToolMsgNoID(tc) ==
    Message(RoleTool, "", <<>>, << ToolResult(<<0, 0>>, ResultText(tc)) >>)

\* the tool message processTurn appends for tool call tc
ToolMsg(tc) == Message(RoleTool, "", <<>>, << ToolResult(tc.ID, ResultText(tc)) >>)

Reverse(s) == [j \in 1..Len(s) |-> s[Len(s) + 1 - j]]

RoundCallsUnordered == Reverse(resp[1].ToolCalls)

\* processTurn: the tool calls "range resp.ToolCalls" goes through, in order
RoundCalls == resp[1].ToolCalls

\* processTurn: the body of "for _, tc := range resp.ToolCalls" for one tool call,
\* and the step to the next iteration after the last one
ExecTool ==
    /\ apc = "tools"
    /\ LET tc == RoundCalls[tcIdx] IN
         /\ history' = Append(history, ToolMsg(tc))
         /\ execLog' = Append(execLog, tc)
         /\ toolErrs' = IF tc.Name \notin Registry \/ ExecuteFails(tc)
                          THEN toolErrs + 1 ELSE toolErrs
    /\ IF tcIdx = Len(RoundCalls)
         THEN /\ apc' = "loop"
              /\ i' = i + 1
              /\ nRounds' = nRounds + 1
              /\ UNCHANGED tcIdx
         ELSE /\ tcIdx' = tcIdx + 1
              /\ UNCHANGED <<apc, i, nRounds>>
    /\ UNCHANGED <<mode, maxTurns, script, resp, genErr, gstate, gout, fragsLeft,
                   linger, late, leaked, turnErr, taskResult, respLog, nCalls>>
    /\ UNCHANGED exceptAgent

\* Run: processTurn has returned; an error is printed; back to the prompt
TurnDone ==
    /\ apc = "returned"
    /\ mode = "Run"
    /\ apc' = "prompt"
    /\ UNCHANGED <<mode, maxTurns, script, history, i, tcIdx, resp, genErr, gstate,
                   gout, fragsLeft, linger, late, leaked, turnErr, taskResult,
                   respLog, nCalls, nRounds, execLog, toolErrs>>
    /\ UNCHANGED exceptAgent

\* RunTask: processTurn has returned; the result is the error, or the content of
\* the last message when that is an assistant message
RunTaskReturn ==
    /\ apc = "returned"
    /\ mode = "RunTask"
    /\ taskResult' =
         IF turnErr # "nil" THEN << [text |-> "", err |-> turnErr] >>
         ELSE IF Len(history) > 0 /\ Last(history).Role = RoleAssistant
           THEN << [text |-> Last(history).Content, err |-> "nil"] >>
         ELSE << [text |-> "Task completed with no output", err |-> "nil"] >>
    /\ apc' = "taskdone"
    /\ UNCHANGED <<mode, maxTurns, script, history, i, tcIdx, resp, genErr, gstate,
                   gout, fragsLeft, linger, late, leaked, turnErr, respLog, nCalls,
                   nRounds, execLog, toolErrs>>
    /\ UNCHANGED exceptAgent

\* an abandoned GenerateStream goroutine that could still finish does so
OrphanFinish ==
    /\ late > 0
    /\ late' = late - 1
    /\ UNCHANGED <<mode, maxTurns, script, history, apc, i, tcIdx, resp, genErr,
                   gstate, gout, fragsLeft, linger, leaked, turnErr, taskResult,
                   respLog, nCalls, nRounds, execLog, toolErrs>>
    /\ UNCHANGED exceptAgent

AgentNext ==
    \/ UserInput
    \/ UserExit
    \/ StartGenerate
    \/ MaxTurnsReached
    \/ GenSend
    \/ GenReturn
    \/ GenClose
    \/ DisplayFinish
    \/ DisplayQuit
    \/ AfterDisplay
    \/ ExecTool
    \/ TurnDone
    \/ RunTaskReturn
    \/ OrphanFinish

InitAgent == AgentInit /\ StreamIdle /\ McpIdle /\ MgrIdle /\ ShIdle /\ SanIdle /\ DelIdle /\ ToolsIdle

SpecAgent == InitAgent /\ [][AgentNext]_vars

----------------------------------------------------------------------------
(* Properties of the agent loop *)

\* processTurn has returned and its result is still on record
TurnOver == apc \in {"returned", "taskdone", "prompt", "exited"} /\ turnErr # "none"

\* the responses processTurn took before the last one all carried tool calls
EarlierAllTools == \A j \in 1..(Len(respLog) - 1) : respLog[j] = "tools"

\* C1: a turn ends successfully exactly at the first response without tool calls:
\* after k responses with tool calls and one without (k below the bound) there
\* were k tool rounds and k+1 provider calls, processTurn returned nil, the last
\* history entry is that plain assistant message and RunTask returns its text.
C1_TurnEndsAtFirstPlain ==
    /\ EarlierAllTools
    /\ (TurnOver /\ turnErr = "nil") => (respLog # <<>> /\ Last(respLog) = "plain")
    /\ (TurnOver /\ respLog # <<>> /\ Last(respLog) = "plain") =>
          /\ Len(respLog) - 1 < maxTurns
          /\ nRounds = Len(respLog) - 1
          /\ nCalls = Len(respLog)
          /\ turnErr = "nil"
          /\ Last(history).Role = RoleAssistant
          /\ Last(history).ToolCalls = <<>>
          /\ Last(history).Content \in Texts
          /\ Last(history) = resp[1]
          /\ apc = "taskdone" =>
                taskResult = << [text |-> Last(history).Content, err |-> "nil"] >>

C1_Witness ==
    /\ apc = "taskdone"
    /\ respLog = <<"tools", "tools", "plain">>
    /\ nRounds = 2
    /\ taskResult = << [text |-> "ans2", err |-> "nil"] >>

\* a step of a turn in progress
TurnStep ==
    \/ StartGenerate \/ MaxTurnsReached \/ GenSend \/ GenReturn \/ GenClose
    \/ DisplayFinish \/ AfterDisplay \/ ExecTool

\* C2: processTurn makes at most maxTurns provider calls and a turn in progress
\* can always take its next step; when all maxTurns responses carried tool calls
\* it returns the error "max turns reached" (RunTask passes it on with no text),
\* which is no ToolResult: tool errors are in the history, not in the return value.
C2_IterationBound ==
    /\ nCalls <= maxTurns
    /\ i <= maxTurns
    /\ nRounds <= nCalls
    /\ apc \in {"loop", "display", "check", "tools"} => ENABLED TurnStep
    /\ (TurnOver /\ Len(respLog) = maxTurns /\ Last(respLog) = "tools") =>
          /\ turnErr = "maxTurns"
          /\ Last(history).Role = RoleTool
          /\ apc = "taskdone" => taskResult = << [text |-> "", err |-> "maxTurns"] >>
    /\ turnErr = "maxTurns" =>
          /\ nCalls = maxTurns /\ nRounds = maxTurns
          /\ Len(respLog) = maxTurns /\ Last(respLog) = "tools"

C2_Witness ==
    /\ apc = "taskdone"
    /\ maxTurns = MaxTurnsNew
    /\ turnErr = "maxTurns"
    /\ nCalls = MaxTurnsNew
    /\ toolErrs = 0

\* the error text the loop owes tool call tc
OwedText(tc) ==
    IF tc.Name \notin Registry THEN <<"Error: Tool not found", tc.Name>>
    ELSE IF tc.Args = "bad" THEN <<"Error executing tool", tc.Name>>
    ELSE <<"output", tc.Name>>

\* C3: an unknown tool or a failing Execute never makes processTurn return an
\* error: it becomes a tool message with the error text; processTurn returns an
\* error only for a provider failure (error or no response) or at the bound.
C3_ToolErrorsAbsorbed ==
    /\ turnErr \in {"none", "nil", "genErr", "noResp", "maxTurns"}
    /\ turnErr = "genErr" => (respLog # <<>> /\ Last(respLog) = "error")
    /\ turnErr = "noResp" => (nCalls > Len(respLog))
    /\ turnErr = "maxTurns" => nCalls = maxTurns
    /\ \A p \in DOMAIN history :
          history[p].Role = RoleAssistant =>
             \A j \in 1..Len(history[p].ToolCalls) :
                p + j <= Len(history) =>
                   /\ history[p + j].Role = RoleTool
                   /\ history[p + j].ToolResult # <<>>
                   /\ history[p + j].ToolResult[1].Content
                        = OwedText(history[p].ToolCalls[j])

C3_Witness ==
    /\ apc = "returned"
    /\ turnErr = "nil"
    /\ toolErrs >= 4
    /\ nRounds = 2

\* C4: every tool message carries the id of a ToolCall of an assistant message at
\* a strictly earlier position of the history.
C4_ToolResultRefersBack ==
    \A p \in DOMAIN history :
       history[p].Role = RoleTool =>
          /\ history[p].ToolResult # <<>>
          /\ \E d \in 1..(p - 1) :
                /\ history[p - d].Role = RoleAssistant
                /\ \E j \in 1..Len(history[p - d].ToolCalls) :
                      history[p - d].ToolCalls[j].ID
                         = history[p].ToolResult[1].ToolCallID

C4_Witness ==
    /\ Len(history) >= 6
    /\ Last(history).Role = RoleTool
    /\ Last(history).ToolResult[1].ToolCallID = <<2, 3>>

\* position of the last assistant message of h (0 when there is none)
RECURSIVE LastAssistant(_, _)
LastAssistant(h, p) ==
    IF p = 0 THEN 0
    ELSE IF h[p].Role = RoleAssistant THEN p
    ELSE LastAssistant(h, p - 1)

\* C5: the tool calls of a round are dispatched one at a time in message order,
\* each exactly once and each answered by one tool message appended before the
\* next dispatch and before the next provider call: the tool messages after an
\* assistant message match its tool calls in number and order.
C5_SequentialDispatch ==
    /\ \A p \in DOMAIN history :
          history[p].Role = RoleAssistant =>
             LET cs == history[p].ToolCalls IN
             /\ \A j \in 1..Len(cs) :
                   p + j <= Len(history) =>
                      /\ history[p + j].Role = RoleTool
                      /\ history[p + j].ToolResult[1].ToolCallID = cs[j].ID
             /\ p + Len(cs) < Len(history) => history[p + Len(cs) + 1].Role # RoleTool
             /\ p + Len(cs) > Len(history) => apc = "tools"
    /\ apc = "tools" =>
          LET q == LastAssistant(history, Len(history)) IN
          /\ q > 0
          /\ Len(execLog) = tcIdx - 1
          /\ Len(history) = q + Len(execLog)
          /\ execLog = SubSeq(history[q].ToolCalls, 1, Len(execLog))
    /\ (apc \in {"loop", "display", "check"} /\ nRounds > 0) =>
          LET q == LastAssistant(history, Len(history)) IN
          /\ q > 0
          /\ execLog = history[q].ToolCalls
          /\ Len(history) = q + Len(execLog)

C5_Witness ==
    /\ apc = "display"
    /\ nRounds = 2
    /\ Len(execLog) = 3
    /\ execLog[1].Name = "Task" /\ execLog[3].Name = "Nope"

\* C6: the history is append-only: every step keeps the entries already present,
\* in place and unmodified, and only adds entries at the end.
C6_HistoryAppendOnly == [][IsPrefix(history, history')]_vars

C6_Witness ==
    /\ mode = "Run"
    /\ apc = "returned"
    /\ Len(history) >= 7
    /\ history[2].Role = RoleUser
    /\ \E p \in 3..Len(history) : history[p].Role = RoleUser

\* C7: processTurn never returns and never starts a new GenerateStream call while
\* the goroutine of an earlier GenerateStream call has not finished.
C7_OneStreamOutstanding ==
    apc \notin {"display", "check"} => (gstate = "none" /\ late + leaked = 0)

----------------------------------------------------------------------------
(* GenerateStream: the streaming decoders of the adapters *)

Adapters == {"anthropic", "openai_chat", "openai_responses", "gemini"}

\* text fragments of text-delta events (the empty one included)
TextFrags == { <<>>, <<"a">>, <<"b">> }

\* fragments of the JSON text of tool-call arguments
ArgFrags == { <<"{">>, <<"x", "}">> }

\* content-block indexes (Anthropic), tool-call indexes (chat completions)
Keys == 0..(MaxGroups - 1)

\* json.Unmarshal of an argument buffer into a map, with the adapters' fallback to
\* an empty map when it fails; a map is modelled by its set of keys
ParseArgs(buf) == IF buf = <<"{", "x", "}">> THEN {"x"} ELSE {}

RECURSIVE Flatten(_)
Flatten(ss) == IF ss = <<>> THEN <<>> ELSE ss[1] \o Flatten(Tail(ss))

AppendTextOverwrite(c, f) == f

\* finalMsg.Content += text
AppendText(c, f) == c \o f

\* if outputChan != nil { outputChan <- text }
Forward(f) == IF hasChan THEN Append(sent, f) ELSE sent

\* the name the backend gives the k-th tool call of a stream
NameOf(k) == IF k % 2 = 1 THEN "Read" ELSE "Bash"

\* the open group of the stream with key k, as a set of positions
OpenGroup(k) == { j \in 1..Len(groups) : groups[j].key = k /\ groups[j].open }

Group(k, id, name, buf, isOpen) ==
    [key |-> k, ID |-> id, Name |-> name, Buf |-> buf, open |-> isOpen]

\* builders with key k set to builder b
Put(bs, k, b) == [x \in (DOMAIN bs) \cup {k} |-> IF x = k THEN b ELSE bs[x]]

\* delete(builders, k)
Delete(bs, k) == [x \in (DOMAIN bs) \ {k} |-> bs[x]]

Builder(id, name, buf) == [ID |-> id, Name |-> name, Buf |-> buf]

StreamInit ==
    /\ adapter \in Adapters
    /\ hasChan \in BOOLEAN
    /\ sstatus = "sent"
    /\ content = <<>> /\ sent = <<>> /\ builders = <<>> /\ calls = <<>>
    /\ nEvents = 0 /\ toolCallIndex = 0 /\ groups = <<>> /\ wellFormed = TRUE
    /\ lastLine = "none" /\ statusCode = 0

\* the status codes the backend answers with
StatusCodes == {200, 429, 500}

\* the status test that lets every answer through
HTTPResponseAnyStatus ==
    /\ sstatus = "sent"
    /\ statusCode' \in StatusCodes
    /\ sstatus' = "reading"
    /\ UNCHANGED <<adapter, hasChan, content, sent, builders, calls, nEvents,
                   toolCallIndex, groups, wellFormed, lastLine, exceptStream>>

\* c.client.Do(req) has answered: "if resp.StatusCode != http.StatusOK" the call
\* returns an error made of the status and the body, else it starts to read
HTTPResponse ==
    /\ sstatus = "sent"
    /\ statusCode' \in StatusCodes
    /\ sstatus' = IF statusCode' # 200 THEN "failed" ELSE "reading"
    /\ UNCHANGED <<adapter, hasChan, content, sent, builders, calls, nEvents,
                   toolCallIndex, groups, wellFormed, lastLine, exceptStream>>

\* the line changes nothing in the decoder
NoEffect ==
    UNCHANGED <<sstatus, content, sent, builders, calls, toolCallIndex, groups,
                wellFormed>>

\* the lines the decoder passes over: no "data: " prefix, a payload
\* json.Unmarshal rejects, an event of a type that needs nothing
SkippedLines == {"noprefix", "malformed", "ignored"}

\* a malformed payload that ends the call with an error
SkipLineFails ==
    /\ lastLine' \in SkippedLines
    /\ sstatus' = IF lastLine' = "malformed" THEN "failed" ELSE sstatus
    /\ UNCHANGED <<content, sent, builders, calls, toolCallIndex, groups, wellFormed>>

\* a line the decoder passes over ("continue")
SkipLine ==
    /\ lastLine' \in SkippedLines
    /\ NoEffect

\* a text fragment is appended to the content and forwarded
TextDelta(f) ==
    /\ content' = AppendText(content, f)
    /\ sent' = Forward(f)
    /\ UNCHANGED <<sstatus, builders, calls, toolCallIndex, groups, wellFormed>>

\* Anthropic: content_block_start of a tool_use block
AnthropicToolUseStart(idx) ==
    LET k == Len(groups) + 1 IN
    /\ builders' = Put(builders, idx, Builder(<<"id", k>>, NameOf(k), <<>>))
    /\ IF OpenGroup(idx) = {}
         THEN /\ groups' = Append(groups, Group(idx, <<"id", k>>, NameOf(k), <<>>, TRUE))
              /\ UNCHANGED wellFormed
         ELSE /\ wellFormed' = FALSE
              /\ UNCHANGED groups
    /\ UNCHANGED <<sstatus, content, sent, calls, toolCallIndex>>

\* Anthropic: content_block_delta with an input_json_delta
AnthropicInputJSONDelta(idx, f) ==
    /\ builders' = IF idx \in DOMAIN builders
                     THEN [builders EXCEPT ![idx].Buf = @ \o f]
                     ELSE builders
    /\ IF OpenGroup(idx) = {}
         THEN /\ wellFormed' = FALSE
              /\ UNCHANGED groups
         ELSE /\ groups' = [j \in 1..Len(groups) |->
                              IF j \in OpenGroup(idx)
                                THEN [groups[j] EXCEPT !.Buf = @ \o f]
                                ELSE groups[j]]
              /\ UNCHANGED wellFormed
    /\ UNCHANGED <<sstatus, content, sent, calls, toolCallIndex>>

\* Anthropic: content_block_stop
AnthropicContentBlockStop(idx) ==
    /\ IF idx \in DOMAIN builders
         THEN /\ calls' = Append(calls, ToolCall(builders[idx].ID, builders[idx].Name,
                                                 ParseArgs(builders[idx].Buf)))
              /\ builders' = Delete(builders, idx)
         ELSE UNCHANGED <<calls, builders>>
    /\ groups' = [j \in 1..Len(groups) |->
                    IF j \in OpenGroup(idx) THEN [groups[j] EXCEPT !.open = FALSE]
                    ELSE groups[j]]
    /\ UNCHANGED <<sstatus, content, sent, toolCallIndex, wellFormed>>

\* an explicit error event in a decoder that has no case for it
ErrorEventIgnored ==
    /\ lastLine' = "error"
    /\ NoEffect

\* an explicit error event: GenerateStream returns an error
ErrorEvent ==
    /\ lastLine' = "error"
    /\ sstatus' = "failed"
    /\ UNCHANGED <<content, sent, builders, calls, toolCallIndex, groups, wellFormed>>

\* AnthropicClient.GenerateStream: one line of the response body
AnthropicLine ==
    /\ adapter = "anthropic"
    /\ sstatus = "reading"
    /\ nEvents < MaxEvents
    /\ nEvents' = nEvents + 1
    /\ \/ SkipLine
       \/ ErrorEvent
       \/ /\ lastLine' = "event"
          /\ \/ \E f \in TextFrags : TextDelta(f)
             \/ \E idx \in Keys : AnthropicToolUseStart(idx)
             \/ \E idx \in Keys, f \in ArgFrags : AnthropicInputJSONDelta(idx, f)
             \/ \E idx \in Keys : AnthropicContentBlockStop(idx)
    /\ UNCHANGED <<adapter, hasChan, statusCode, exceptStream>>

\* a tool-call entry of a chat-completions delta
Entry(index, id, name, args) == [index |-> index, ID |-> id, Name |-> name, Args |-> args]

\* chat completions: positions of the group with index k
GroupOf(k) == { j \in 1..Len(groups) : groups[j].key = k }

\* the entry a chat-completions stream sends for the tool call with index k: the
\* first one carries id and name, the later ones argument fragments
ChatEntries(k) ==
    IF GroupOf(k) = {}
      THEN { Entry(k, <<"id", Len(groups) + 1>>, NameOf(Len(groups) + 1), <<>>) }
      ELSE { Entry(k, <<>>, "", f) : f \in ArgFrags }

\* the tool_calls arrays of one chunk: one entry, as the API streams them, or the
\* first entries of the calls with index 0 and 1 together
ChatArrays ==
    { << e >> : e \in UNION { ChatEntries(k) : k \in Keys } }
    \cup ( IF groups = <<>> /\ MaxGroups >= 2
             THEN { << Entry(0, <<"id", 1>>, NameOf(1), <<>>),
                       Entry(1, <<"id", 2>>, NameOf(2), <<>>) >> }
             ELSE {} )

\* chat completions: "for i, tc := range delta.ToolCalls" on the builders: the
\* builder is the one at the entry's position i in the array
RECURSIVE ChatApply(_, _, _)
ChatApply(bs, arr, n) ==
    IF n > Len(arr) THEN bs
    ELSE LET pos == n - 1
             old == IF pos \in DOMAIN bs THEN bs[pos] ELSE Builder(<<>>, "", <<>>)
             tc  == arr[n]
             new == Builder(IF tc.ID # <<>> THEN tc.ID ELSE old.ID,
                            IF tc.Name # "" THEN tc.Name ELSE old.Name,
                            old.Buf \o tc.Args)
         IN ChatApply(Put(bs, pos, new), arr, n + 1)

\* the groups of the stream after the entries of a chunk, by their index field
RECURSIVE ChatGroups(_, _, _)
ChatGroups(gs, arr, n) ==
    IF n > Len(arr) THEN gs
    ELSE LET tc == arr[n]
             at == { j \in 1..Len(gs) : gs[j].key = tc.index }
         IN ChatGroups(
              IF at = {}
                THEN Append(gs, Group(tc.index, tc.ID, tc.Name, tc.Args, FALSE))
                ELSE [j \in 1..Len(gs) |->
                        IF j \in at THEN [gs[j] EXCEPT !.Buf = @ \o tc.Args] ELSE gs[j]],
              arr, n + 1)

\* chat completions: the tool calls of a chunk's delta
ChatToolCalls(arr) ==
    /\ builders' = ChatApply(builders, arr, 1)
    /\ groups' = ChatGroups(groups, arr, 1)
    /\ UNCHANGED <<sstatus, content, sent, calls, toolCallIndex, wellFormed>>

\* OpenAIClient.GenerateStream (chat completions): one line of the response body
OpenAIChatLine ==
    /\ adapter = "openai_chat"
    /\ sstatus = "reading"
    /\ nEvents < MaxEvents
    /\ nEvents' = nEvents + 1
    /\ \/ SkipLine
       \/ ErrorEventIgnored
       \/ /\ lastLine' = "event"
          /\ \/ \E f \in TextFrags : IF f # <<>> THEN TextDelta(f) ELSE NoEffect
             \/ \E arr \in ChatArrays : ChatToolCalls(arr)
    /\ UNCHANGED <<adapter, hasChan, statusCode, exceptStream>>

CallIDs == { <<"call", k>> : k \in Keys }

\* responses: response.function_call_arguments.delta with a call id
ResponsesArgsDelta(c, f) ==
    /\ builders' = IF c \in DOMAIN builders
                     THEN [builders EXCEPT ![c].Buf = @ \o f]
                     ELSE Put(builders, c, Builder(c, "", f))
    /\ IF GroupOf(c) = {}
         THEN /\ groups' = Append(groups, Group(c, c, "", f, TRUE))
              /\ UNCHANGED wellFormed
         ELSE IF OpenGroup(c) = {}
           THEN /\ wellFormed' = FALSE
                /\ UNCHANGED groups
         ELSE /\ groups' = [j \in 1..Len(groups) |->
                              IF j \in OpenGroup(c)
                                THEN [groups[j] EXCEPT !.Buf = @ \o f] ELSE groups[j]]
              /\ UNCHANGED wellFormed
    /\ UNCHANGED <<sstatus, content, sent, calls, toolCallIndex>>

\* the complete argument text a done event can carry for call id c: none, or the
\* text its deltas added up to (any fragment when there was no delta)
DoneBlobs(c) ==
    {<<>>} \cup ( IF GroupOf(c) = {} THEN ArgFrags
                  ELSE { groups[j].Buf : j \in GroupOf(c) } )

\* responses: response.function_call_arguments.done with a call id
ResponsesArgsDone(c, name, blob) ==
    /\ builders' = IF c \in DOMAIN builders
                     THEN [builders EXCEPT ![c] =
                             Builder(@.ID, name, IF blob # <<>> THEN blob ELSE @.Buf)]
                     ELSE Put(builders, c, Builder(c, name, blob))
    /\ IF GroupOf(c) = {}
         THEN /\ groups' = Append(groups, Group(c, c, name, blob, FALSE))
              /\ UNCHANGED wellFormed
         ELSE IF OpenGroup(c) = {}
           THEN /\ wellFormed' = FALSE
                /\ UNCHANGED groups
         ELSE /\ groups' = [j \in 1..Len(groups) |->
                              IF j \in OpenGroup(c)
                                THEN [groups[j] EXCEPT !.Name = name, !.open = FALSE]
                                ELSE groups[j]]
              /\ UNCHANGED wellFormed
    /\ UNCHANGED <<sstatus, content, sent, calls, toolCallIndex>>

\* OpenAIClient.GenerateStream (responses): one line of the response body
OpenAIResponsesLine ==
    /\ adapter = "openai_responses"
    /\ sstatus = "reading"
    /\ nEvents < MaxEvents
    /\ nEvents' = nEvents + 1
    /\ \/ SkipLine
       \/ ErrorEventIgnored
       \/ /\ lastLine' = "event"
          /\ \/ \E f \in TextFrags : IF f # <<>> THEN TextDelta(f) ELSE NoEffect
             \/ \E c \in CallIDs, f \in ArgFrags : ResponsesArgsDelta(c, f)
             \/ \E c \in CallIDs : \E blob \in DoneBlobs(c) :
                   ResponsesArgsDone(c, NameOf(c[2] + 1), blob)
    /\ UNCHANGED <<adapter, hasChan, statusCode, exceptStream>>

\* Gemini: a part with a functionCall; its args arrive as a JSON object inside the
\* chunk
GeminiFunctionCall(name, argText) ==
    /\ calls' = Append(calls, ToolCall(<<"call", toolCallIndex>>, name, ParseArgs(argText)))
    /\ toolCallIndex' = toolCallIndex + 1
    /\ groups' = Append(groups, Group(Len(groups), <<"call", Len(groups)>>, name,
                                      argText, FALSE))
    /\ UNCHANGED <<sstatus, content, sent, builders, wellFormed>>

\* GeminiClient.GenerateStream: one line of the response body (one part)
GeminiLine ==
    /\ adapter = "gemini"
    /\ sstatus = "reading"
    /\ nEvents < MaxEvents
    /\ nEvents' = nEvents + 1
    /\ \/ SkipLine
       \/ ErrorEventIgnored
       \/ /\ lastLine' = "event"
          /\ \/ \E f \in TextFrags : IF f # <<>> THEN TextDelta(f) ELSE NoEffect
             \/ \E t \in { <<"{", "}">>, <<"{", "x", "}">> } :
                   GeminiFunctionCall(NameOf(Len(groups) + 1), t)
    /\ UNCHANGED <<adapter, hasChan, statusCode, exceptStream>>

\* the body ends (io.EOF) or, for the adapters that know it, the [DONE] line comes
StreamEnd ==
    /\ sstatus = "reading"
    /\ sstatus' = "finalize"
    /\ lastLine' = "eof"
    /\ wellFormed' = (wellFormed /\ \A j \in 1..Len(groups) : ~groups[j].open)
    /\ UNCHANGED <<adapter, hasChan, content, sent, builders, calls, nEvents,
                   toolCallIndex, groups, statusCode, exceptStream>>

\* reader.ReadString fails with an error other than io.EOF
ReadError ==
    /\ sstatus = "reading"
    /\ sstatus' = "failed"
    /\ lastLine' = "readerr"
    /\ UNCHANGED <<adapter, hasChan, content, sent, builders, calls, nEvents,
                   toolCallIndex, groups, wellFormed, statusCode, exceptStream>>

\* the orders in which a range over a Go map with key set S can go
MapOrders(S) ==
    { o \in [1..Cardinality(S) -> S] :
        \A a, b \in 1..Cardinality(S) : a # b => o[a] # o[b] }

\* after the read loop: the OpenAI adapters build the tool calls from the builders
\* left in the map ("for _, tb := range toolBuilders"); the others return finalMsg
Finalize ==
    /\ sstatus = "finalize"
    /\ sstatus' = "returned"
    /\ IF adapter \in {"openai_chat", "openai_responses"}
         THEN \E o \in MapOrders(DOMAIN builders) :
                 calls' = calls \o [j \in 1..Len(o) |->
                             ToolCall(builders[o[j]].ID, builders[o[j]].Name,
                                      ParseArgs(builders[o[j]].Buf))]
         ELSE UNCHANGED calls
    /\ UNCHANGED <<adapter, hasChan, content, sent, builders, nEvents, toolCallIndex,
                   groups, wellFormed, lastLine, statusCode, exceptStream>>

StreamNext ==
    \/ HTTPResponse
    \/ AnthropicLine
    \/ OpenAIChatLine
    \/ OpenAIResponsesLine
    \/ GeminiLine
    \/ StreamEnd
    \/ ReadError
    \/ Finalize

InitStream == StreamInit /\ AgentIdle /\ McpIdle /\ MgrIdle /\ ShIdle /\ SanIdle /\ DelIdle /\ ToolsIdle

SpecStream == InitStream /\ [][StreamNext]_vars

----------------------------------------------------------------------------
(* Properties of the streaming decoders *)

\* C8: when GenerateStream with a non-nil output queue returns a Message, the
\* fragments it sent on the queue, concatenated in order, are Message.Content
\* (for every adapter and every stream); with a nil queue nothing is sent.
C8_FragmentsEqualContent ==
    /\ (sstatus = "returned" /\ hasChan) => Flatten(sent) = content
    /\ ~hasChan => sent = <<>>

C8_Witness ==
    /\ sstatus = "returned"
    /\ hasChan
    /\ adapter = "openai_responses"
    /\ sent = << <<"a">>, <<"b">>, <<"a">> >>
    /\ content = <<"a", "b", "a">>
    /\ Len(calls) = 1

\* the ToolCalls the groups of the stream stand for, in order of first appearance
ExpectedCalls ==
    [j \in 1..Len(groups) |->
        ToolCall(groups[j].ID, groups[j].Name, ParseArgs(groups[j].Buf))]

\* C9: a stream with N tool-call event groups, possibly interleaved, yields a
\* Message with exactly N ToolCalls in order of first appearance, each with its
\* own id and name and the parse of its own argument fragments, for every backend.
C9_ToolCallAssembly ==
    (sstatus = "returned" /\ wellFormed) => calls = ExpectedCalls

----------------------------------------------------------------------------
(* The MCP client (pkg/mcp): sendRequest callers, the readResponses         *)
(* goroutine and the server at the other end of the pipes                   *)

\* a line of the server's output: a JSON-RPC response, or a line that is empty or
\* does not unmarshal (Valid = FALSE)
Line(valid, id, err) == [Valid |-> valid, ID |-> id, Err |-> err]

\* the server is another process: it may answer in any order, repeat an answer,
\* answer an id nobody is waiting for, answer with an error (here to request 1)
\* or write junk
Lines ==
    {Line(FALSE, 0, FALSE), Line(TRUE, 1, TRUE)}
        \cup {Line(TRUE, n, FALSE) : n \in 1..MaxRequests}

McpInit ==
    /\ requestID = 0 /\ pending = <<>> /\ mu = "free"
    /\ respChan = [c \in Callers |-> <<>>]
    /\ cpc = [c \in Callers |-> "idle"]
    /\ cid = [c \in Callers |-> 0]
    /\ cres = [c \in Callers |-> NoResult]
    /\ stdin = {} /\ stdout = <<>> /\ nLines = 0 /\ rpc = "scan" /\ rresp = <<>>

\* id := atomic.AddInt64(&c.requestID, 1); respChan := make(chan *JSONRPCResponse, 1)
NewRequest(c) ==
    /\ cpc[c] \in {"idle", "done"}
    /\ requestID < MaxRequests
    /\ requestID' = requestID + 1
    /\ cid' = [cid EXCEPT ![c] = requestID + 1]
    /\ respChan' = [respChan EXCEPT ![c] = <<>>]
    /\ cres' = [cres EXCEPT ![c] = NoResult]
    /\ cpc' = [cpc EXCEPT ![c] = "register"]
    /\ UNCHANGED <<pending, mu, stdin, stdout, nLines, rpc, rresp>>
    /\ UNCHANGED exceptMcp

\* c.mu.Lock(); c.pending[id] = respChan; c.mu.Unlock()
Register(c) ==
    /\ cpc[c] = "register"
    /\ mu = "free"
    /\ pending' = (cid[c] :> c) @@ pending
    /\ cpc' = [cpc EXCEPT ![c] = "write"]
    /\ UNCHANGED <<requestID, respChan, mu, cid, cres, stdin, stdout, nLines, rpc, rresp>>
    /\ UNCHANGED exceptMcp

\* c.mu.Lock(); _, err = fmt.Fprintf(c.stdin, ...); c.mu.Unlock(); the write fails
\* when the pipe is closed
WriteRequest(c) ==
    /\ cpc[c] = "write"
    /\ mu = "free"
    /\ \/ /\ stdin' = stdin \cup {cid[c]}
          /\ cpc' = [cpc EXCEPT ![c] = "wait"]
          /\ UNCHANGED cres
       \/ /\ cres' = [cres EXCEPT ![c] = Result("writeerr", 0)]
          /\ cpc' = [cpc EXCEPT ![c] = "cleanup"]
          /\ UNCHANGED stdin
    /\ UNCHANGED <<requestID, pending, respChan, mu, cid, stdout, nLines, rpc, rresp>>
    /\ UNCHANGED exceptMcp

\* case resp := <-respChan
Receive(c) ==
    /\ cpc[c] = "wait"
    /\ respChan[c] # <<>>
    /\ LET r == Head(respChan[c])
       IN  cres' = [cres EXCEPT ![c] =
                       IF r.Err THEN Result("rpcerr", r.ID) ELSE Result("resp", r.ID)]
    /\ respChan' = [respChan EXCEPT ![c] = Tail(respChan[c])]
    /\ cpc' = [cpc EXCEPT ![c] = "cleanup"]
    /\ UNCHANGED <<requestID, pending, mu, cid, stdin, stdout, nLines, rpc, rresp>>
    /\ UNCHANGED exceptMcp

\* case <-ctx.Done()
Cancel(c) ==
    /\ cpc[c] = "wait"
    /\ cres' = [cres EXCEPT ![c] = Result("ctxerr", 0)]
    /\ cpc' = [cpc EXCEPT ![c] = "cleanup"]
    /\ UNCHANGED <<requestID, pending, respChan, mu, cid, stdin, stdout, nLines, rpc, rresp>>
    /\ UNCHANGED exceptMcp

\* the entry left in the table
DeletePendingNone(tbl, id) == tbl

\* delete(c.pending, id)
DeletePending(tbl, id) == [k \in (DOMAIN tbl) \ {id} |-> tbl[k]]

\* the deferred c.mu.Lock(); delete(c.pending, id); c.mu.Unlock(), then the return
Cleanup(c) ==
    /\ cpc[c] = "cleanup"
    /\ mu = "free"
    /\ pending' = DeletePending(pending, cid[c])
    /\ cpc' = [cpc EXCEPT ![c] = "done"]
    /\ UNCHANGED <<requestID, respChan, mu, cid, cres, stdin, stdout, nLines, rpc, rresp>>
    /\ UNCHANGED exceptMcp

\* the server process writes a line to its stdout, while it has it open; it
\* writes the next line when the reader has taken the one before (the reader
\* gets the same lines in the same order whenever they were written)
ServerWrite ==
    /\ rpc # "exited"
    /\ nLines < MaxLines
    /\ stdout = <<>>
    /\ nLines' = nLines + 1
    /\ \E l \in Lines : stdout' = Append(stdout, l)
    /\ UNCHANGED <<requestID, pending, respChan, mu, cpc, cid, cres, stdin, rpc, rresp>>
    /\ UNCHANGED exceptMcp

\* for c.scanner.Scan() { ... }: empty and malformed lines are skipped
ReaderScan ==
    /\ rpc = "scan"
    /\ stdout # <<>>
    /\ stdout' = Tail(stdout)
    /\ LET l == Head(stdout)
       IN  IF l.Valid
           THEN rresp' = <<l>> /\ rpc' = "lock"
           ELSE UNCHANGED <<rresp, rpc>>
    /\ UNCHANGED <<requestID, pending, respChan, mu, cpc, cid, cres, stdin, nLines>>
    /\ UNCHANGED exceptMcp

\* c.scanner.Scan() returns false: the server's stdout is closed
ReaderEOF ==
    /\ rpc = "scan"
    /\ stdout = <<>>
    /\ rpc' = "exited"
    /\ UNCHANGED <<requestID, pending, respChan, mu, cpc, cid, cres, stdin, stdout, nLines,
                   rresp>>
    /\ UNCHANGED exceptMcp

\* c.mu.Lock() in readResponses
ReaderLock ==
    /\ rpc = "lock"
    /\ mu = "free"
    /\ mu' = "reader"
    /\ rpc' = "route"
    /\ UNCHANGED <<requestID, pending, respChan, cpc, cid, cres, stdin, stdout, nLines, rresp>>
    /\ UNCHANGED exceptMcp

\* the key a response is looked up under: a response that goes to the channel of
\* the lowest pending id instead
RouteKeyLowest(r) ==
    IF DOMAIN pending = {}
    THEN r.ID
    ELSE CHOOSE k \in DOMAIN pending : \A j \in DOMAIN pending : k <= j

\* c.pending[resp.ID]
RouteKey(r) == r.ID

\* if ch, ok := c.pending[resp.ID]; ok { ch <- &resp }; c.mu.Unlock()
\* the send blocks, with the mutex held, while the channel's buffer is full
ReaderRoute ==
    /\ rpc = "route"
    /\ LET r == rresp[1]
           k == RouteKey(r)
       IN  IF k \in DOMAIN pending
           THEN /\ Len(respChan[pending[k]]) < 1
                /\ respChan' = [respChan EXCEPT ![pending[k]] = Append(@, r)]
           ELSE UNCHANGED respChan
    /\ mu' = "free"
    /\ rpc' = "scan"
    /\ rresp' = <<>>
    /\ UNCHANGED <<requestID, pending, cpc, cid, cres, stdin, stdout, nLines>>
    /\ UNCHANGED exceptMcp

McpNext ==
    \/ \E c \in Callers : NewRequest(c)
    \/ \E c \in Callers : Register(c)
    \/ \E c \in Callers : WriteRequest(c)
    \/ \E c \in Callers : Receive(c)
    \/ \E c \in Callers : Cancel(c)
    \/ \E c \in Callers : Cleanup(c)
    \/ ServerWrite
    \/ ReaderScan
    \/ ReaderEOF
    \/ ReaderLock
    \/ ReaderRoute

InitMcp == McpInit /\ AgentIdle /\ StreamIdle /\ MgrIdle /\ ShIdle /\ SanIdle /\ DelIdle /\ ToolsIdle

SpecMcp == InitMcp /\ [][McpNext]_vars

----------------------------------------------------------------------------
(* Properties of the MCP correlation *)

\* C10: with several sendRequest calls in flight on one client, a caller that
\* receives a response (a result or an RPC error) receives one whose id is the
\* id assigned to its own request, whatever the order of the responses on the
\* wire; the ids of different callers differ, so it is never another request's.
C10_OwnResponseOnly ==
    /\ \A c \in Callers :
          /\ cres[c].kind \in {"resp", "rpcerr"} => cres[c].ID = cid[c]
          /\ \A n \in 1..Len(respChan[c]) : respChan[c][n].ID = cid[c]
    /\ \A c, d \in Callers : (c # d /\ cid[c] # 0) => cid[c] # cid[d]

\* requests 1 and 2 in flight together and answered in reverse order: the caller
\* of request 2 has returned with response 2 while response 1 is on its way to
\* the caller of request 1, who is still waiting
C10_Witness ==
    /\ stdin = {1, 2}
    /\ \E c, d \in Callers :
          /\ cid[c] = 1 /\ cpc[c] = "wait" /\ respChan[c] = <<>>
          /\ cid[d] = 2 /\ cpc[d] = "done" /\ cres[d] = Result("resp", 2)
    /\ rpc = "route"
    /\ rresp = <<Line(TRUE, 1, FALSE)>>

\* the calls that are in flight: started and not yet returned
InFlight == { c \in Callers : cpc[c] \in {"register", "write", "wait", "cleanup"} }

\* C11: the pending entry of a request is in the table before any byte of the
\* request is written (so at the write and whenever the request has been
\* written and the call has not returned); once sendRequest has returned, for
\* whatever reason, no entry for its id remains; with no request in flight the
\* table is empty.
C11_PendingLifecycle ==
    /\ \A c \in Callers :
          /\ cpc[c] \in {"write", "wait"} =>
                (cid[c] \in DOMAIN pending /\ pending[cid[c]] = c)
          /\ (cid[c] \in stdin /\ cpc[c] # "done") => cid[c] \in DOMAIN pending
          /\ cpc[c] = "done" => cid[c] \notin DOMAIN pending
    /\ InFlight = {} => pending = <<>>

\* both calls have returned, one with its response and one cancelled, and the
\* table is empty again
C11_Witness ==
    /\ InFlight = {}
    /\ pending = <<>>
    /\ stdin = {1, 2}
    /\ \E c, d \in Callers :
          /\ cpc[c] = "done" /\ cres[c].kind = "resp"
          /\ cpc[d] = "done" /\ cres[d].kind = "ctxerr"

\* readResponses holds the mutex and is blocked in "ch <- &resp": the buffer of
\* the channel is full
ReaderBlocked ==
    /\ rpc = "route"
    /\ RouteKey(rresp[1]) \in DOMAIN pending
    /\ Len(respChan[pending[RouteKey(rresp[1])]]) >= 1

\* ... and the owner of that channel is not going to receive from it any more
ReaderStuck ==
    /\ ReaderBlocked
    /\ cpc[pending[RouteKey(rresp[1])]] # "wait"

\* C12: a sendRequest call whose context is cancelled while it awaits its
\* response returns the cancellation error without waiting for anything else
\* and removes its entry: having taken the ctx.Done() branch, its deferred
\* cleanup can always get the mutex, now or once its holder lets go.
C12_CancelReturns ==
    \A c \in Callers :
        (cpc[c] = "cleanup" /\ cres[c].kind = "ctxerr") => ~ReaderStuck

\* C13: the mutex is never held by a task that is blocked waiting: whenever the
\* reader holds it, the reader can hand over its response and release it.
C13_MutexNeverAcrossWait ==
    mu = "reader" => ~ReaderBlocked

\* the scheduling of the client's goroutines: a sendRequest call and the reader
\* take the step they can take.  The context of a call made by processTurn is
\* context.Background(), which is never cancelled, and nothing makes the server
\* write or keep its output open.
McpFairness ==
    /\ \A c \in Callers : WF_vars(Register(c)) /\ WF_vars(WriteRequest(c))
    /\ \A c \in Callers : WF_vars(Receive(c)) /\ WF_vars(Cleanup(c))
    /\ WF_vars(ReaderScan) /\ WF_vars(ReaderLock) /\ WF_vars(ReaderRoute)

SpecMcpFair == SpecMcp /\ McpFairness

\* the reader task has stopped: the server's output has ended, because the
\* server exited or closed it or because Close closed the pipe
ReaderStopped == rpc = "exited"

\* C38: every sendRequest call eventually returns: a call that awaits its
\* response when the reader has stopped is completed, although its context is
\* never cancelled.
C38_PendingCallReturns ==
    \A c \in Callers : (cpc[c] = "wait" /\ ReaderStopped) ~> (cpc[c] = "done")

----------------------------------------------------------------------------
(* The MCP manager (pkg/mcp): LoadAndConnect, ConnectServer, Client.Connect, *)
(* DisconnectServer, Close and GetAllTools                                   *)

\* the tool lists a server answers tools/list with (names may repeat)
ToolLists == { <<>>, <<"t1">>, <<"t1", "t2">>, <<"t1", "t1">> }

\* the ways a request of Connect fails: sendRequest returns an RPC error, a
\* write error or the context's error, or the result does not unmarshal
RequestFailures == {"rpcerr", "writeerr", "ctxerr", "badresult"}

\* what Connect has done on a client, appended to its log
Did(c, what) == [c EXCEPT !.log = c.log \o what]

\* Client.Close: connected = false, pipes closed, process killed and reaped
Close(c) == [c EXCEPT !.connected = FALSE, !.closed = TRUE, !.log = c.log \o <<"close">>]

MgrInit ==
    /\ mgrPc = "ready" /\ inLoad = FALSE /\ todo = {} /\ loadRes = "none"
    /\ cur = "" /\ step = "" /\ cl = NewClient /\ clients = <<>>
    /\ lastFailed = <<>> /\ outcome = [n \in Servers |-> "none"]
    /\ catalog = <<>> /\ catalogNow = FALSE /\ nConnects = 0

\* m.clients changes: what GetAllTools returned before is no longer its catalog
CatalogOutdated == catalog' = <<>> /\ catalogNow' = FALSE

\* LoadAndConnect: config, err := LoadAllConfigs() (its error is always nil);
\* the range over config.MCPServers begins
LoadAndConnect ==
    /\ mgrPc = "ready"
    /\ ~inLoad
    /\ loadRes = "none"
    /\ inLoad' = TRUE
    /\ todo' = Servers
    /\ UNCHANGED <<mgrPc, loadRes, cur, step, cl, clients, lastFailed, outcome, catalog,
                   catalogNow, nConnects>>
    /\ UNCHANGED exceptMgr

\* LoadAndConnect stopping at the first server that fails to connect
LoadAbortOnError(rest) == {}

\* LoadAndConnect after ConnectServer returned an error: "Log error but continue
\* with other servers"; the servers still to range over
LoadAfterError(rest) == rest

\* ConnectServer returns an error to its caller
ConnectFailed(name, rest) ==
    /\ outcome' = [outcome EXCEPT ![name] = "fail"]
    /\ todo' = IF inLoad THEN LoadAfterError(rest) ELSE rest
    /\ mgrPc' = "ready"
    /\ cur' = ""
    /\ step' = ""
    /\ cl' = NewClient

\* ConnectServer(name): m.mu.Lock(); an existing client of that name is closed;
\* NewClient fails (no pipe) or returns the client to connect
ConnectServer(name) ==
    /\ mgrPc = "ready"
    /\ \/ inLoad /\ name \in todo /\ UNCHANGED nConnects
       \/ ~inLoad /\ nConnects < MaxConnects /\ nConnects' = nConnects + 1
    /\ clients' = IF name \in DOMAIN clients
                  THEN [clients EXCEPT ![name] = Close(clients[name])]
                  ELSE clients
    /\ \/ /\ ConnectFailed(name, todo \ {name})
          /\ UNCHANGED lastFailed
       \/ /\ mgrPc' = "connect"
          /\ cur' = name
          /\ step' = "start"
          /\ cl' = NewClient
          /\ todo' = todo \ {name}
          /\ UNCHANGED <<lastFailed, outcome>>
    /\ CatalogOutdated
    /\ UNCHANGED <<inLoad, loadRes>>
    /\ UNCHANGED exceptMgr

\* Connect going from the initialize response straight to tools/list
NextStepSkipNotify(st) ==
    IF st = "start" THEN "init" ELSE "list"

\* the order of Connect's steps: Start and the reader, Initialize,
\* sendNotification, ListTools
NextStep(st) ==
    IF st = "start" THEN "init" ELSE IF st = "init" THEN "notify" ELSE "list"

\* Connect fails after the process was started: c.Close() and the error
ConnectFailedClosed ==
    /\ lastFailed' = << Close(cl) >>
    /\ ConnectFailed(cur, todo)

\* Connect: c.cmd.Start(), then go c.readResponses(); when Start fails Connect
\* returns the error at once
ConnStart ==
    /\ mgrPc = "connect"
    /\ step = "start"
    /\ \/ /\ cl' = Did(cl, <<"spawn", "reader">>)
          /\ step' = NextStep(step)
          /\ UNCHANGED <<mgrPc, todo, cur, lastFailed, outcome>>
       \/ /\ lastFailed' = << cl >>
          /\ ConnectFailed(cur, todo)
    /\ UNCHANGED <<inLoad, loadRes, clients, catalog, catalogNow, nConnects>>
    /\ UNCHANGED exceptMgr

\* Connect: c.Initialize(ctx): the request is sent and the response with its id
\* awaited and unmarshalled
ConnInitialize ==
    /\ mgrPc = "connect"
    /\ step = "init"
    /\ \/ /\ cl' = Did(cl, <<"initialize", "initialize.resp">>)
          /\ step' = NextStep(step)
          /\ UNCHANGED <<mgrPc, todo, cur, lastFailed, outcome>>
       \/ \E f \in RequestFailures :
             /\ lastFailed' = << Close(IF f = "writeerr" THEN cl
                                       ELSE Did(cl, <<"initialize">>)) >>
             /\ ConnectFailed(cur, todo)
    /\ UNCHANGED <<inLoad, loadRes, clients, catalog, catalogNow, nConnects>>
    /\ UNCHANGED exceptMgr

\* Connect: c.sendNotification("notifications/initialized", nil): written under
\* c.mu, no id and no entry in c.pending
ConnNotify ==
    /\ mgrPc = "connect"
    /\ step = "notify"
    /\ \/ /\ cl' = Did(cl, <<"initialized">>)
          /\ step' = NextStep(step)
          /\ UNCHANGED <<mgrPc, todo, cur, lastFailed, outcome>>
       \/ ConnectFailedClosed
    /\ UNCHANGED <<inLoad, loadRes, clients, catalog, catalogNow, nConnects>>
    /\ UNCHANGED exceptMgr

\* Connect: c.tools = tools; c.connected = true
CacheAndConnect(c, ts) ==
    [Did(c, <<"cache", "connected">>) EXCEPT !.tools = ts, !.connected = TRUE]

\* Connect: c.ListTools(ctx), the tools cached and connected set; then
\* ConnectServer: m.clients[name] = client
ConnListTools ==
    /\ mgrPc = "connect"
    /\ step = "list"
    /\ \/ \E ts \in ToolLists :
             /\ clients' = (cur :> CacheAndConnect(
                                      Did(cl, <<"tools/list", "tools/list.resp">>), ts))
                               @@ clients
             /\ outcome' = [outcome EXCEPT ![cur] = "ok"]
             /\ mgrPc' = "ready"
             /\ cur' = ""
             /\ step' = ""
             /\ cl' = NewClient
             /\ UNCHANGED <<todo, lastFailed>>
       \/ \E f \in RequestFailures :
             /\ lastFailed' = << Close(IF f = "writeerr" THEN cl
                                       ELSE Did(cl, <<"tools/list">>)) >>
             /\ ConnectFailed(cur, todo)
             /\ UNCHANGED clients
    /\ CatalogOutdated
    /\ UNCHANGED <<inLoad, loadRes, nConnects>>
    /\ UNCHANGED exceptMgr

\* LoadAndConnect: the range is over; return nil
LoadReturn ==
    /\ mgrPc = "ready"
    /\ inLoad
    /\ todo = {}
    /\ inLoad' = FALSE
    /\ loadRes' = "nil"
    /\ UNCHANGED <<mgrPc, todo, cur, step, cl, clients, lastFailed, outcome, catalog,
                   catalogNow, nConnects>>
    /\ UNCHANGED exceptMgr

\* DisconnectServer(name) for a name in m.clients: delete(m.clients, name) and
\* client.Close()
DisconnectServer(name) ==
    /\ mgrPc = "ready"
    /\ ~inLoad
    /\ name \in DOMAIN clients
    /\ clients' = [n \in (DOMAIN clients) \ {name} |-> clients[n]]
    /\ CatalogOutdated
    /\ UNCHANGED <<mgrPc, inLoad, todo, loadRes, cur, step, cl, lastFailed, outcome,
                   nConnects>>
    /\ UNCHANGED exceptMgr

\* Manager.Close: every client closed, m.clients replaced by an empty map
ManagerClose ==
    /\ mgrPc = "ready"
    /\ ~inLoad
    /\ clients # <<>>
    /\ clients' = <<>>
    /\ CatalogOutdated
    /\ UNCHANGED <<mgrPc, inLoad, todo, loadRes, cur, step, cl, lastFailed, outcome,
                   nConnects>>
    /\ UNCHANGED exceptMgr

\* fmt.Sprintf("mcp__%s__%s", serverName, tool.Name)
McpToolName(server, tool) == <<"mcp__", server, "__", tool>>

\* the MCPToolDefinitions GetAllTools appends for one client
EntriesOf(server, c) ==
    [j \in 1..Len(c.tools) |->
        [ServerName |-> server,
         Name |-> McpToolName(server, c.tools[j]),
         OriginalName |-> c.tools[j]]]

\* GetAllTools without the test of Connected()
ListedAlways(c) == TRUE

\* GetAllTools: if !client.Connected() { continue }
Listed(c) == c.connected

\* GetAllTools: the range over m.clients in the order given
RECURSIVE GetAllToolsIn(_, _)
GetAllToolsIn(cs, order) ==
    IF order = <<>>
    THEN <<>>
    ELSE (IF Listed(cs[order[1]]) THEN EntriesOf(order[1], cs[order[1]]) ELSE <<>>)
             \o GetAllToolsIn(cs, Tail(order))

\* GetAllTools, under m.mu.RLock()
GetAllTools ==
    /\ mgrPc = "ready"
    /\ \E order \in MapOrders(DOMAIN clients) :
          catalog' = GetAllToolsIn(clients, order)
    /\ catalogNow' = TRUE
    /\ UNCHANGED <<mgrPc, inLoad, todo, loadRes, cur, step, cl, clients, lastFailed,
                   outcome, nConnects>>
    /\ UNCHANGED exceptMgr

MgrNext ==
    \/ LoadAndConnect
    \/ \E name \in Servers : ConnectServer(name)
    \/ ConnStart
    \/ ConnInitialize
    \/ ConnNotify
    \/ ConnListTools
    \/ LoadReturn
    \/ \E name \in Servers : DisconnectServer(name)
    \/ ManagerClose
    \/ GetAllTools

InitMgr == MgrInit /\ AgentIdle /\ StreamIdle /\ McpIdle /\ ShIdle /\ SanIdle /\ DelIdle /\ ToolsIdle

SpecMgr == InitMgr /\ [][MgrNext]_vars

----------------------------------------------------------------------------
(* Properties of the MCP manager *)

\* the steps of a complete Connect, in order
FullLog ==
    <<"spawn", "reader", "initialize", "initialize.resp", "initialized",
      "tools/list", "tools/list.resp", "cache", "connected">>

\* a log without the Close calls at its end
RECURSIVE BeforeClose(_)
BeforeClose(lg) ==
    IF lg # <<>> /\ Last(lg) = "close"
    THEN BeforeClose(SubSeq(lg, 1, Len(lg) - 1))
    ELSE lg

\* what Connect did on a client, without the Close calls that followed
Steps(c) == BeforeClose(c.log)

\* the clients there are: the one being connected, those of the manager and the
\* one whose Connect failed last
KnownClients ==
    {cl} \cup { clients[n] : n \in DOMAIN clients }
         \cup { lastFailed[k] : k \in 1..Len(lastFailed) }

\* Connect's steps were taken in the order of FullLog, and connected is true
\* only after all of them, both responses included
ConnectInOrder(c) ==
    /\ IsPrefix(Steps(c), FullLog)
    /\ c.connected => (Steps(c) = FullLog /\ ~c.closed)
    /\ c.tools # <<>> => Steps(c) = FullLog

\* C14 as stated: Connect takes its steps in the order spawn, reader, initialize
\* and its response, notifications/initialized, tools/list and its response,
\* cache, connected=true; connected only with both responses; and if any step
\* fails the client is closed and connected stays false.
C14_ConnectOrderAndClose ==
    /\ \A c \in KnownClients : ConnectInOrder(c)
    /\ \A k \in 1..Len(lastFailed) :
          lastFailed[k].closed /\ ~lastFailed[k].connected

\* C14 amended: the same, except that a failure of the spawn itself returns the
\* error without closing the client (nothing was started); every later failure
\* closes it; connected stays false in both cases.
C14_ConnectOrderAmended ==
    /\ \A c \in KnownClients : ConnectInOrder(c)
    /\ \A k \in 1..Len(lastFailed) :
          /\ ~lastFailed[k].connected
          /\ lastFailed[k].closed <=> Steps(lastFailed[k]) # <<>>

\* one client connected by the complete sequence, and one closed after its
\* tools/list request failed
C14_Witness ==
    /\ \E n \in DOMAIN clients : clients[n].connected /\ clients[n].log = FullLog
    /\ lastFailed # <<>>
    /\ lastFailed[1].log = SubSeq(FullLog, 1, 6) \o <<"close">>
    /\ lastFailed[1].closed

\* the (client, position) pairs of the tools of the connected clients of the
\* manager
CatalogPairs ==
    UNION { { <<n, j>> : j \in 1..Len(clients[n].tools) } :
              n \in { m \in DOMAIN clients : clients[m].connected } }

\* the catalog entry wanted for such a pair
WantedEntry(p) ==
    [ServerName |-> p[1],
     Name |-> <<"mcp__", p[1], "__", clients[p[1]].tools[p[2]]>>,
     OriginalName |-> clients[p[1]].tools[p[2]]]

\* C15: GetAllTools returns exactly one entry for each tool in the cached list
\* of each client of the manager with connected=true, named mcp__<s>__<t> with
\* original name t, and nothing else: no tool of a client that is not connected.
C15_CatalogExact ==
    catalogNow =>
        /\ Len(catalog) = Cardinality(CatalogPairs)
        /\ \A p \in CatalogPairs :
              Cardinality({ k \in 1..Len(catalog) : catalog[k] = WantedEntry(p) })
                  = Cardinality({ q \in CatalogPairs : WantedEntry(q) = WantedEntry(p) })
        /\ \A k \in 1..Len(catalog) :
              /\ catalog[k].ServerName \in DOMAIN clients
              /\ clients[catalog[k].ServerName].connected

\* the catalog lists the tools of a connected client while another client of
\* the manager, closed but with its tools still cached, is left out
C15_Witness ==
    /\ catalogNow
    /\ Len(catalog) = 2
    /\ \E n, o \in DOMAIN clients :
          /\ ~clients[n].connected /\ clients[n].tools # <<>>
          /\ clients[o].connected /\ clients[o].tools = <<"t1", "t2">>

\* server n has no entry in any catalog GetAllTools can return now
NoToolsOf(n) ==
    \A order \in MapOrders(DOMAIN clients) :
        \A k \in 1..Len(GetAllToolsIn(clients, order)) :
            GetAllToolsIn(clients, order)[k].ServerName # n

\* C16: in LoadAndConnect a server that fails to connect does not keep the
\* others from being connected and does not make LoadAndConnect return an
\* error: every configured server the range has passed was tried, the ones
\* whose Connect succeeded are connected clients of the manager, the failed
\* ones contribute no tools, and the range passes all of them before the return.
C16_LoadBestEffort ==
    /\ loadRes \in {"none", "nil"}
    /\ inLoad =>
          \A n \in Servers \ (todo \cup {cur}) :
              /\ outcome[n] \in {"ok", "fail"}
              /\ outcome[n] = "ok" => (n \in DOMAIN clients /\ clients[n].connected)
              /\ outcome[n] = "fail" => NoToolsOf(n)

\* LoadAndConnect about to return: one server failed, the other is connected
C16_Witness ==
    /\ inLoad /\ todo = {} /\ mgrPc = "ready"
    /\ \E n, o \in Servers :
          /\ outcome[n] = "fail"
          /\ outcome[o] = "ok" /\ o \in DOMAIN clients /\ clients[o].connected

\* C37: a ConnectServer call that fails leaves the manager as it was: whenever
\* no ConnectServer call is under way, every client in m.clients is connected
\* and has not been closed, the client of a server whose last ConnectServer
\* call returned an error included.
C37_FailedConnectLeavesManager ==
    mgrPc = "ready" =>
        \A n \in DOMAIN clients : clients[n].connected /\ ~clients[n].closed

\* C37 for a server that has no client yet when ConnectServer is called
C37_FirstConnectLeavesManager ==
    [][ \A n \in Servers :
          (n \notin DOMAIN clients /\ mgrPc' = "ready") =>
              (n \in DOMAIN clients' => clients'[n].connected /\ ~clients'[n].closed) ]_vars

----------------------------------------------------------------------------
(* tools.ShellManager (pkg/tools/shell_manager.go, buffer.go): Start,      *)
(* GetOutput and Kill called by any number of concurrent tasks, the        *)
(* goroutine Start launches around cmd.Wait, and the goroutine of os/exec  *)
(* that copies the command's output pipe into the ThreadSafeBuffer.  Each  *)
(* of the three calls holds sm.mu from its first statement to its return,  *)
(* so at most one call is past its sm.mu.Lock() at a time; a call that     *)
(* waits for sm.mu is a call whose Lock step has not been taken yet.       *)

\* fmt.Sprintf("%d", sm.nextID): the decimal digits of the number
RECURSIVE FormatID(_)
FormatID(n) == IF n < 10 THEN <<n>> ELSE FormatID(n \div 10) \o <<n % 10>>

\* &BackgroundProcess{ID: id, Cmd: cmd, OutputBuf: buf, StartTime: ...}
BackgroundProcess(id, n) == [ID |-> id, Cmd |-> n, Done |-> FALSE, Error |-> "nil"]

ShInit == ShIdle

\* sm.mu.Lock() at the head of Start(cmd), GetOutput(id) and Kill(id); the
\* ids asked for are those Start can return
ShLock(kind, n) ==
    /\ smMu = "free"
    /\ kind = "start" => nextID <= MaxStarts
    /\ smMu' = "caller"
    /\ spc' = kind
    /\ sop' = [kind |-> kind, n |-> n]
    /\ ret' = NoReturn
    /\ UNCHANGED <<nextID, processes, outputBuf, bufMu, osProc, pipe, sig,
                   watcher, copier, lastOut>>
    /\ UNCHANGED exceptSh

ShReturnLocked(r) ==
    /\ smMu' = smMu
    /\ spc' = "none"
    /\ sop' = NoCall
    /\ ret' = r

\* the deferred sm.mu.Unlock() and the return
ShReturn(r) ==
    /\ smMu' = "free"
    /\ spc' = "none"
    /\ sop' = NoCall
    /\ ret' = r

\* commands whose cmd.Start has succeeded
Started == { n \in Cmds : osProc[n] # "none" }

NextIDSame(n) == n

\* sm.nextID++
NextID(n) == n + 1

\* Start, lines 35-64: the id, the record, cmd.Start(); on success the
\* process runs, holds its output pipe, and the two goroutines exist
Start ==
    /\ spc = "start"
    /\ LET n == nextID
           id == FormatID(nextID)
       IN /\ nextID' = NextID(nextID)
          /\ \/ /\ Cardinality(Started) < MaxRunning
                /\ processes' = (id :> BackgroundProcess(id, n)) @@ processes
                /\ osProc' = [osProc EXCEPT ![n] = "running"]
                /\ pipe' = [pipe EXCEPT ![n] = TRUE]
                /\ watcher' = [watcher EXCEPT ![n] = "wait"]
                /\ copier' = [copier EXCEPT ![n] = "copy"]
             \/ /\ processes' = (id :> [BackgroundProcess(id, n) EXCEPT
                                           !.Done = TRUE, !.Error = "starterr"])
                                @@ processes
                /\ UNCHANGED <<osProc, pipe, watcher, copier>>
          /\ ShReturn(Returned("start", id, <<>>, FALSE, "nil", "none"))
    /\ UNCHANGED <<outputBuf, bufMu, sig, lastOut>>
    /\ UNCHANGED exceptSh

\* GetOutput, lines 71-74: the lookup; a known id goes on to
\* bp.OutputBuf.String(), which starts with b.m.Lock()
GetLookup ==
    /\ spc = "get"
    /\ IF FormatID(sop.n) \in DOMAIN processes
         THEN /\ spc' = "string"
              /\ ret' = NoReturn
              /\ UNCHANGED <<smMu, sop>>
         ELSE ShReturn(Returned("get", FormatID(sop.n), <<>>, FALSE, "notfound", "none"))
    /\ UNCHANGED <<nextID, processes, outputBuf, bufMu, osProc, pipe, sig,
                   watcher, copier, lastOut>>
    /\ UNCHANGED exceptSh

\* ThreadSafeBuffer.String: b.m.Lock()
StringLock ==
    /\ spc = "string"
    /\ bufMu[sop.n] = "free"
    /\ bufMu' = [bufMu EXCEPT ![sop.n] = "caller"]
    /\ spc' = "read"
    /\ ret' = NoReturn
    /\ UNCHANGED <<smMu, nextID, processes, outputBuf, osProc, pipe, sig,
                   watcher, copier, sop, lastOut>>
    /\ UNCHANGED exceptSh

\* bytes.Buffer.String(): the unread part of the buffer, which is all of it
\* (nothing calls Read); chunk k of a command's output is the number k
BufferStringEmpty(b) == <<>>

BufferString(b) == SubSeq(b, 1, Len(b))

\* return bp.OutputBuf.String(), bp.Done, bp.Error: the buffer's deferred
\* unlock, then GetOutput's
GetOutput ==
    /\ spc = "read"
    /\ LET n == sop.n
           bp == processes[FormatID(n)]
           out == BufferString(outputBuf[n])
       IN /\ bufMu' = [bufMu EXCEPT ![n] = "free"]
          /\ lastOut' = [lastOut EXCEPT ![n] = out]
          /\ ShReturn(Returned("get", bp.ID, out, bp.Done, bp.Error, "none"))
    /\ UNCHANGED <<nextID, processes, outputBuf, osProc, pipe, sig, watcher, copier>>
    /\ UNCHANGED exceptSh

\* os.Process.Kill(): on a running process the signal is sent (or the system
\* call fails); on an exited process that nobody has waited for yet the
\* signal is accepted and does nothing; once cmd.Wait has reaped the process
\* it returns os.ErrProcessDone
ProcessKill(os) ==
    CASE os = "running" -> {"nil", "sigfail"}
      [] os = "exited" -> {"nil"}
      [] OTHER -> {"processdone"}

\* Kill, lines 93-105
Kill ==
    /\ spc = "kill"
    /\ LET n == sop.n
           id == FormatID(n)
       IN IF id \notin DOMAIN processes
            THEN /\ ShReturn(Returned("kill", id, <<>>, FALSE, "notfound", "none"))
                 /\ UNCHANGED sig
            ELSE IF processes[id].Done
                   THEN /\ ShReturn(Returned("kill", id, <<>>, TRUE, "nil", osProc[n]))
                        /\ UNCHANGED sig
                   ELSE \E err \in ProcessKill(osProc[n]) :
                          /\ ShReturn(Returned("kill", id, <<>>, FALSE, err, osProc[n]))
                          /\ sig' = [sig EXCEPT ![n] = @ \/ (err = "nil" /\ osProc[n] = "running")]
    /\ UNCHANGED <<nextID, processes, outputBuf, bufMu, osProc, pipe,
                   watcher, copier, lastOut>>
    /\ UNCHANGED exceptSh

\* the command's process ends, by itself or by the signal; processes it has
\* started may live on and keep the write end of its output pipe
ProcExit(n) ==
    /\ osProc[n] = "running"
    /\ osProc' = [osProc EXCEPT ![n] = "exited"]
    /\ \E held \in BOOLEAN : pipe' = [pipe EXCEPT ![n] = held]
    /\ ret' = NoReturn
    /\ UNCHANGED <<smMu, nextID, processes, outputBuf, bufMu, sig, watcher, copier,
                   spc, sop, lastOut>>
    /\ UNCHANGED exceptSh

\* the last process that held the write end of the pipe has ended
PipeClose(n) ==
    /\ osProc[n] \in {"exited", "reaped"}
    /\ pipe[n]
    /\ pipe' = [pipe EXCEPT ![n] = FALSE]
    /\ ret' = NoReturn
    /\ UNCHANGED <<smMu, nextID, processes, outputBuf, bufMu, osProc, sig,
                   watcher, copier, spc, sop, lastOut>>
    /\ UNCHANGED exceptSh

\* cmd.Wait(), first half: c.Process.Wait() returns once the process has exited
WatchWait(n) ==
    /\ watcher[n] = "wait"
    /\ osProc[n] = "exited"
    /\ osProc' = [osProc EXCEPT ![n] = "reaped"]
    /\ watcher' = [watcher EXCEPT ![n] = "join"]
    /\ ret' = NoReturn
    /\ UNCHANGED <<smMu, nextID, processes, outputBuf, bufMu, pipe, sig,
                   copier, spc, sop, lastOut>>
    /\ UNCHANGED exceptSh

\* cmd.Wait(), second half: it waits for the copying goroutine, which ends
\* at the end of the pipe (no WaitDelay is set)
WatchJoin(n) ==
    /\ watcher[n] = "join"
    /\ copier[n] = "eof"
    /\ watcher' = [watcher EXCEPT ![n] = "lock"]
    /\ ret' = NoReturn
    /\ UNCHANGED <<smMu, nextID, processes, outputBuf, bufMu, osProc, pipe, sig,
                   copier, spc, sop, lastOut>>
    /\ UNCHANGED exceptSh

\* the watcher's sm.mu.Lock(), line 57
WatchLock(n) ==
    /\ watcher[n] = "lock"
    /\ smMu = "free"
    /\ smMu' = "watcher"
    /\ watcher' = [watcher EXCEPT ![n] = "set"]
    /\ ret' = NoReturn
    /\ UNCHANGED <<nextID, processes, outputBuf, bufMu, osProc, pipe, sig,
                   copier, spc, sop, lastOut>>
    /\ UNCHANGED exceptSh

\* what cmd.Wait returned: the exit status of a killed process is an error
WaitError(killed) == IF killed THEN "killed" ELSE "nil"

\* bp.Done = true; bp.Error = err; sm.mu.Unlock(), lines 58-60
WatchSet(n) ==
    /\ watcher[n] = "set"
    /\ processes' = [processes EXCEPT ![FormatID(n)].Done = TRUE,
                                      ![FormatID(n)].Error = WaitError(sig[n])]
    /\ smMu' = "free"
    /\ watcher' = [watcher EXCEPT ![n] = "end"]
    /\ ret' = NoReturn
    /\ UNCHANGED <<nextID, outputBuf, bufMu, osProc, pipe, sig,
                   copier, spc, sop, lastOut>>
    /\ UNCHANGED exceptSh

\* the copying goroutine has read a chunk from the pipe and calls
\* ThreadSafeBuffer.Write: b.m.Lock()
WriteLock(n) ==
    /\ copier[n] = "copy"
    /\ pipe[n]
    /\ Len(outputBuf[n]) < MaxWrites
    /\ bufMu[n] = "free"
    /\ bufMu' = [bufMu EXCEPT ![n] = "copier"]
    /\ copier' = [copier EXCEPT ![n] = "write"]
    /\ ret' = NoReturn
    /\ UNCHANGED <<smMu, nextID, processes, outputBuf, osProc, pipe, sig,
                   watcher, spc, sop, lastOut>>
    /\ UNCHANGED exceptSh

\* b.b.Write(p) and the deferred b.m.Unlock()
Write(n) ==
    /\ copier[n] = "write"
    /\ outputBuf' = [outputBuf EXCEPT ![n] = Append(@, Len(@) + 1)]
    /\ bufMu' = [bufMu EXCEPT ![n] = "free"]
    /\ copier' = [copier EXCEPT ![n] = "copy"]
    /\ ret' = NoReturn
    /\ UNCHANGED <<smMu, nextID, processes, osProc, pipe, sig,
                   watcher, spc, sop, lastOut>>
    /\ UNCHANGED exceptSh

\* the copying goroutine reads the end of the pipe and ends
CopyEOF(n) ==
    /\ copier[n] = "copy"
    /\ ~pipe[n]
    /\ copier' = [copier EXCEPT ![n] = "eof"]
    /\ ret' = NoReturn
    /\ UNCHANGED <<smMu, nextID, processes, outputBuf, bufMu, osProc, pipe, sig,
                   watcher, spc, sop, lastOut>>
    /\ UNCHANGED exceptSh

\* the goroutine of "go func() { err := cmd.Wait(); ... }()"
WatcherNext(n) == WatchWait(n) \/ WatchJoin(n) \/ WatchLock(n) \/ WatchSet(n)

\* the goroutine that copies the pipe into the buffer
CopierNext(n) == WriteLock(n) \/ Write(n) \/ CopyEOF(n)

ShNext ==
    \/ ShLock("start", 0)
    \/ \E n \in Cmds : ShLock("get", n)
    \/ \E n \in Cmds : ShLock("kill", n)
    \/ Start
    \/ GetLookup
    \/ StringLock
    \/ GetOutput
    \/ Kill
    \/ \E n \in Cmds : ProcExit(n)
    \/ \E n \in Cmds : PipeClose(n)
    \/ \E n \in Cmds : WatcherNext(n)
    \/ \E n \in Cmds : CopierNext(n)

InitSh == ShInit /\ AgentIdle /\ StreamIdle /\ McpIdle /\ MgrIdle /\ SanIdle /\ DelIdle /\ ToolsIdle

SpecSh == InitSh /\ [][ShNext]_vars

----------------------------------------------------------------------------
(* Properties of the ShellManager *)

\* a step of a GetOutput call that holds sm.mu: the lookup, the buffer's
\* Lock, the return
GetOutputStep == spc \in {"get", "string", "read"} /\ spc' # spc

KilledFinished == ret.kind = "kill" /\ ret.os \in {"exited", "reaped"}

\* C18: Kill on a process that has already finished returns success, in every
\* interleaving with the process's exit and the watcher; Kill returns an
\* error only for an unknown id or a failed signal to a live process.
C18_KillFinishedSucceeds ==
    ret.kind = "kill" =>
        /\ KilledFinished => ret.err = "nil"
        /\ ret.err # "nil" => \/ ret.err = "notfound"
                              \/ ret.err = "sigfail" /\ ret.os = "running"

\* the tasks that hold sm.mu, and those that hold a buffer's mutex
TableHolders == IF smMu = "free" THEN {} ELSE {smMu}

BufferHolders == { bufMu[n] : n \in Cmds } \ {"free"}

\* C20: no task ever holds the table lock sm.mu and a buffer's lock b.m at the
\* same time, in Start, GetOutput, Kill, the watcher and the output writer.
C20_LocksNeverNested == TableHolders \cap BufferHolders = {}

\* the scheduling the Go runtime and the kernel guarantee: every goroutine
\* that can run does run (the watcher, the copying goroutine, the calls in
\* progress), and a process that was sent the termination signal ends.
\* Nothing makes the processes a command has started end.
ShFairness ==
    /\ \A n \in Cmds : SF_vars(WatcherNext(n))
    /\ \A n \in Cmds : SF_vars(CopierNext(n))
    /\ \A n \in Cmds : WF_vars(sig[n] /\ ProcExit(n))
    /\ WF_vars(Start) /\ WF_vars(GetLookup) /\ SF_vars(StringLock)
    /\ WF_vars(GetOutput) /\ WF_vars(Kill)

SpecShFair == SpecSh /\ ShFairness

\* bp.Done of the record of command n
DoneOf(n) == FormatID(n) \in DOMAIN processes /\ processes[FormatID(n)].Done

\* C19: after Kill has sent the termination signal to a running command, its
\* record eventually gets Done = true (so BashOutput stops reporting
\* "running"), given that the watcher is scheduled.
C19_KillLeadsToDone == \A n \in Cmds : sig[n] ~> DoneOf(n)

\* the next step of the call that holds sm.mu
CallStep == Start \/ GetLookup \/ StringLock \/ GetOutput \/ Kill

\* the holder of sm.mu can take its next step, or waits for a buffer lock
\* whose holder can take its next step
TableHolderRuns ==
    \/ smMu = "free"
    \/ smMu = "caller" /\ ENABLED CallStep
    \/ smMu = "caller" /\ spc = "string" /\ bufMu[sop.n] = "copier" /\ ENABLED Write(sop.n)
    \/ smMu = "watcher" /\ \E n \in Cmds : ENABLED WatchSet(n)

\* the holder of the buffer lock of command n can take its next step
BufferHolderRuns(n) ==
    \/ bufMu[n] = "free"
    \/ bufMu[n] = "copier" /\ ENABLED Write(n)
    \/ bufMu[n] = "caller" /\ ENABLED GetOutput

\* C21: no interleaving of Start, GetOutput and Kill calls with the watchers
\* and the output writers reaches a deadlock on sm.mu and the buffer locks:
\* whoever holds a lock can always go on to release it, so every call,
\* watcher and writer that waits for a lock gets it and completes.
C21_NoLockDeadlock == TableHolderRuns /\ \A n \in Cmds : BufferHolderRuns(n)

\* a GetOutput call holds sm.mu and waits for the buffer lock, which the
\* output writer holds
C21_Witness == smMu = "caller" /\ spc = "string" /\ bufMu[sop.n] = "copier"

\* the same as progress, under ShFairness: every call past its sm.mu.Lock()
\* returns, every watcher that waits for sm.mu sets Done, every Write ends,
\* and both locks are free again and again
LocksProgress ==
    /\ (spc # "none") ~> (spc = "none")
    /\ \A n \in Cmds : (watcher[n] = "lock") ~> (watcher[n] = "end")
    /\ \A n \in Cmds : (copier[n] = "write") ~> (copier[n] = "copy")
    /\ []<>(smMu = "free")
    /\ \A n \in Cmds : []<>(bufMu[n] = "free")

----------------------------------------------------------------------------
(* BashOutputTool.Execute (pkg/tools/shell_ops.go) *)

BashOutputStatusNoError(done, err) == IF done THEN "finished" ELSE "running"

\* status := "running"; if done { "finished" }; if err != nil { "error: ..." }
BashOutputStatus(done, err) ==
    IF err # "nil" THEN "error"
    ELSE IF done THEN "finished" ELSE "running"

\* "Shell ID: %s\nStatus: %s\nOutput:\n%s" of what GetOutput returned
BashOutput(r) == [id |-> r.id, status |-> BashOutputStatus(r.done, r.err), output |-> r.out]

\* GetOutput has just returned for command n, whose cmd.Start had succeeded
PolledStarted(n) == ret.kind = "get" /\ ret.id = FormatID(n) /\ osProc[n] # "none"

----------------------------------------------------------------------------
(* sanitizeSchemaForGemini (pkg/llm/gemini.go): the function, applied to   *)
(* tool schemas of bounded nesting.                                        *)

\* unsupportedFields, lines 345-373
unsupportedFields ==
    { "$schema", "additionalProperties", "$id", "$ref", "$defs", "definitions",
      "default", "examples", "const", "contentMediaType", "contentEncoding",
      "if", "then", "else", "allOf", "anyOf", "oneOf", "not", "patternProperties",
      "propertyNames", "unevaluatedProperties", "unevaluatedItems",
      "dependentSchemas", "dependentRequired", "minContains", "maxContains",
      "contains" }

RECURSIVE sanitizeSchemaForGemini(_)

SanitizeItemNil(item) == JNil

\* lines 396-401: an item of an array is sanitized if it is a map, and copied
\* as it is otherwise
SanitizeItem(item) ==
    IF item.t = "map" THEN sanitizeSchemaForGemini(item) ELSE item

\* the type switch, lines 390-406
SanitizeValue(val) ==
    CASE val.t = "map" -> sanitizeSchemaForGemini(val)
      [] val.t = "arr" -> JArr([j \in 1..Len(val.e) |-> Field("", SanitizeItem(val.e[j].v))])
      [] OTHER -> val

\* lines 334-410: a nil or non-map schema is returned as it is; of a map the
\* entries with unsupported keys are skipped and the others copied with
\* their values sanitized
sanitizeSchemaForGemini(sch) ==
    IF sch.t # "map" THEN sch
    ELSE LET kept == SelectSeq(sch.e, LAMBDA en : en.k \notin unsupportedFields)
         IN JMap([j \in 1..Len(kept) |-> Field(kept[j].k, SanitizeValue(kept[j].v))])

\* the innermost values of the schemas tried
Leaves ==
    { JNil, JStr("string"), JMap(<<>>),
      JMap(<<Field("type", JStr("string"))>>),
      JMap(<<Field("$ref", JStr("#/x"))>>),
      JMap(<<Field("type", JStr("integer")), Field("default", JStr("0"))>>) }

\* what a map of the schemas tried holds besides its nested value
Siblings ==
    { <<>>,
      <<Field("type", JStr("object"))>>,
      <<Field("additionalProperties", JStr("false"))>>,
      <<Field("type", JStr("array")), Field("$schema", JStr("http://json-schema.org"))>> }

\* one nesting level: a map with the value under a supported key, a map with
\* it under an unsupported key, an array with it as an item
Wrappers == { "properties", "$defs", "array" }

Wrap(w, sib, val) ==
    IF w = "array" THEN JArr(<<Field("", JStr("required")), Field("", val)>>)
    ELSE JMap(sib \o <<Field(w, val)>>)

\* the schema with the nesting levels of spine, outermost first, around leaf
RECURSIVE Build(_, _, _)
Build(spine, sib, leaf) ==
    IF spine = <<>> THEN leaf
    ELSE Wrap(Head(spine), sib, Build(Tail(spine), sib, leaf))

Spines == UNION { [1..d -> Wrappers] : d \in 0..MaxDepth }

Schemas == { Build(sp, sib, leaf) : sp \in Spines, sib \in Siblings, leaf \in Leaves }

SanInit == inSchema \in Schemas /\ outSchema = JNil /\ sanPc = "ready"

\* sanitizedSchema := sanitizeSchemaForGemini(schema), line 225
Sanitize ==
    /\ sanPc = "ready"
    /\ outSchema' = sanitizeSchemaForGemini(inSchema)
    /\ sanPc' = "done"
    /\ UNCHANGED inSchema
    /\ UNCHANGED exceptSan

SanNext == Sanitize

InitSan == SanInit /\ AgentIdle /\ StreamIdle /\ McpIdle /\ MgrIdle /\ ShIdle /\ DelIdle /\ ToolsIdle

SpecSan == InitSan /\ [][SanNext]_vars

----------------------------------------------------------------------------
(* Properties of sanitizeSchemaForGemini *)

\* some map inside val, at any depth, has an unsupported key
RECURSIVE HasUnsupported(_)
HasUnsupported(val) ==
    \/ val.t = "map" /\ \E j \in 1..Len(val.e) : val.e[j].k \in unsupportedFields
    \/ \E j \in 1..Len(val.e) : HasUnsupported(val.e[j].v)

\* C23: for any schema built from nested objects and arrays, the result of
\* sanitizeSchemaForGemini has none of the unsupported keywords as a key at
\* any nesting depth, whatever mix of maps and arrays leads to that depth.
C23_NoUnsupportedKeyLeft ==
    (sanPc = "done" /\ inSchema.t = "map") => ~HasUnsupported(outSchema)

\* every supported key of a, at every path no unsupported key lies on, is at
\* the same path of b, and the strings and nils there are the same
RECURSIVE Untouched(_, _)
Untouched(a, b) ==
    /\ a.t = b.t /\ a.s = b.s
    /\ a.t = "map" =>
         \A j \in 1..Len(a.e) : a.e[j].k \notin unsupportedFields =>
            \E m \in 1..Len(b.e) : b.e[m].k = a.e[j].k /\ Untouched(a.e[j].v, b.e[m].v)
    /\ a.t = "arr" =>
         /\ Len(b.e) = Len(a.e)
         /\ \A j \in 1..Len(a.e) : Untouched(a.e[j].v, b.e[j].v)

ToUpper(str) ==
    CASE str = "object" -> "OBJECT"
      [] str = "string" -> "STRING"
      [] str = "array" -> "ARRAY"
      [] str = "integer" -> "INTEGER"
      [] OTHER -> str

\* the value of every "type" key inside val, at any depth, is in upper case
RECURSIVE TypesUpper(_)
TypesUpper(val) ==
    /\ val.t = "map" =>
         \A j \in 1..Len(val.e) :
            (val.e[j].k = "type" /\ val.e[j].v.t = "str") =>
                val.e[j].v.s = ToUpper(val.e[j].v.s)
    /\ \A j \in 1..Len(val.e) : TypesUpper(val.e[j].v)

\* C25: sanitizeSchemaForGemini converts the value of every "type" key to
\* upper case at every nesting level (object -> OBJECT, string -> STRING,
\* array -> ARRAY, integer -> INTEGER).
C25_TypesUpperCased ==
    (sanPc = "done" /\ inSchema.t = "map") => TypesUpper(outSchema)

----------------------------------------------------------------------------
(* Properties of the tool results of the agent loop (SpecAgent) *)

\* the call a tool message at position p of the history answers: the call with
\* the same id in the nearest assistant message before it
AnsweredCalls(p) ==
    { tc \in UNION { { history[q].ToolCalls[j] :
                          j \in 1..Len(history[q].ToolCalls) } :
                      q \in { q \in 1..(p - 1) :
                                /\ history[q].Role = RoleAssistant
                                /\ \A r \in (q + 1)..(p - 1) :
                                      history[r].Role # RoleAssistant } } :
         tc.ID = history[p].ToolResult[1].ToolCallID }

\* C28: every tool message of the history carries, next to the id, the name of
\* the ToolCall it answers, which the Gemini adapter sends as the name of the
\* function response.
C28_ToolResultNamesTool ==
    \A p \in DOMAIN history :
       history[p].Role = RoleTool =>
          \A tc \in AnsweredCalls(p) :
             history[p].ToolResult[1].ToolName = tc.Name

----------------------------------------------------------------------------
(* Task delegation and the session log: agent.New with its taskRunner,     *)
(* Agent.Run, Agent.RunTask and Agent.processTurn seen from outside a      *)
(* GenerateStream call (a call is one step that returns a message or an    *)
(* error), TaskTool.Execute, SessionManager.Append                         *)

\* user inputs the interactive agent reads at most
MaxInputs == 1

\* responses with tool calls the scripted provider gives in one run at most, to
\* all agents together
MaxToolRounds == 2

\* the texts a Task call can carry as its "task" argument
Tasks == {"t1", "t2"}

\* the tools agent.New registers
BuiltinTools ==
    {"Bash", "Read", "Write", "Edit", "Glob", "TodoWrite", "Grep", "WebSearch",
     "WebFetch", "AskUserQuestion", "NotebookEdit", "BashOutput", "KillShell",
     "Task"}

\* the names GetAllTools can give the tools of the connected MCP servers
McpToolNames == {"mcp__fs__read"}

\* agent.New: the built-in catalog, the system prompt, no session yet
New ==
    [history |-> << SystemPrompt >>, tools |-> BuiltinTools, session |-> FALSE,
     pc |-> "new", i |-> 0, calls |-> <<>>, tcIdx |-> 0, err |-> "nil"]

\* the history taskRunner gives the sub-agent
TaskRunnerHistory(task) ==
    << Message(RoleSystem, "You are a sub-agent working on a specific task: " \o task,
               <<>>, <<>>),
       Message(RoleUser, "Please perform the task: " \o task, <<>>, <<>>) >>

\* taskRunner: a new agent from New with the history overridden, about to run
\* RunTask, which starts processTurn
taskRunner(task) ==
    [New EXCEPT !.history = TaskRunnerHistory(task), !.pc = "loop"]

\* registerMCPTools: one tool more in the registry for every MCP tool
registerMCPTools(fr, mcpTools) == [fr EXCEPT !.tools = @ \cup mcpTools]

\* the agent whose code is running: the last one created
Top == agents[Len(agents)]

SetTop(fr) == [agents EXCEPT ![Len(agents)] = fr]

\* a.session.Append(role, msg) behind "if a.session != nil": the call, and
\* whether it wrote the event or returned an error (which is printed as a warning)
SessionAppendNoTool(fr, role, msg) ==
    IF fr.session /\ role # RoleTool
      THEN /\ appends' = Append(appends, [role |-> role, msg |-> msg])
           /\ sessionFile' \in {sessionFile, sessionFile + 1}
      ELSE UNCHANGED <<appends, sessionFile>>

SessionAppend(fr, role, msg) ==
    IF fr.session
      THEN /\ appends' = Append(appends, [role |-> role, msg |-> msg])
           /\ sessionFile' \in {sessionFile, sessionFile + 1}
      ELSE UNCHANGED <<appends, sessionFile>>

DelInit ==
    /\ agents = << New >>
    /\ appends = <<>>
    /\ sessionFile = 0
    /\ toolRounds = 0
    /\ provider \in {"any", "looping"}

\* Run up to its loop: NewSessionManager succeeds or fails, LoadAndConnect,
\* registerMCPTools
RunSetup ==
    /\ Len(agents) = 1
    /\ Top.pc = "new"
    /\ \E ok \in BOOLEAN, mcpTools \in SUBSET McpToolNames :
          agents' = << [registerMCPTools(Top, mcpTools)
                           EXCEPT !.session = ok, !.pc = "prompt"] >>
    /\ UNCHANGED <<appends, sessionFile>>
    /\ UNCHANGED <<toolRounds, exceptDel>>

UserInputs(h) == Cardinality({ p \in DOMAIN h : h[p].Role = RoleUser })

\* Run: a line of input becomes a user message; processTurn starts
RunUserInput ==
    /\ Len(agents) = 1
    /\ Top.pc = "prompt"
    /\ UserInputs(Top.history) < MaxInputs
    /\ agents' = SetTop([Top EXCEPT !.history = Append(@, UserMsg),
                                    !.pc = "loop", !.i = 0, !.err = "nil"])
    /\ SessionAppend(Top, RoleUser, UserMsg)
    /\ UNCHANGED <<toolRounds, exceptDel>>

\* the tool calls the scripted provider asks for: a built-in tool, an MCP tool,
\* Task with a task text and Task without one
ScriptedCalls ==
    { <<nm, "good">> : nm \in {"Read"} \cup McpToolNames }
    \cup { <<"Task", t>> : t \in Tasks \cup {"bad"} }

\* what a GenerateStream call can return in round n of a turn: (nil, err) is <<>>,
\* (msg, nil) is <<msg>>
AnyResponses(n) ==
    { <<>> }
    \cup { << Message(RoleAssistant, t, <<>>, <<>>) >> : t \in Texts }
    \cup { << Message(RoleAssistant, "", << ToolCall(<<n, 1>>, c[1], c[2]) >>, <<>>) >> :
             c \in IF toolRounds < MaxToolRounds THEN ScriptedCalls ELSE {} }

\* the responses of the looping provider: a Task call in the first round of the
\* interactive agent, a Read call in every round of its sub-agent, and a text or
\* an error after that
LoopingResponses(n) ==
    IF Len(agents) = 1 /\ n = 0
      THEN { << Message(RoleAssistant, "", << ToolCall(<<n, 1>>, "Task", "t1") >>, <<>>) >> }
    ELSE IF Len(agents) = 2
      THEN { << Message(RoleAssistant, "", << ToolCall(<<n, 1>>, "Read", "good") >>, <<>>) >> }
    ELSE { <<>> } \cup { << Message(RoleAssistant, t, <<>>, <<>>) >> : t \in Texts }

TaskResponses(n) ==
    IF provider = "looping" THEN LoopingResponses(n) ELSE AnyResponses(n)

\* processTurn from the top of the loop to the test of resp.ToolCalls
TurnGenerate ==
    /\ Len(agents) >= 1
    /\ Top.pc = "loop"
    /\ \E r \in TaskResponses(Top.i) :
          IF Top.i >= MaxTurnsNew
            THEN /\ agents' = SetTop([Top EXCEPT !.pc = "returned", !.err = "maxTurns"])
                 /\ UNCHANGED <<appends, sessionFile, toolRounds>>
          ELSE IF r = <<>>
            THEN /\ agents' = SetTop([Top EXCEPT !.pc = "returned", !.err = "gen"])
                 /\ UNCHANGED <<appends, sessionFile, toolRounds>>
            ELSE /\ toolRounds' = toolRounds + (IF Len(r[1].ToolCalls) = 0 THEN 0 ELSE 1)
                 /\ agents' = SetTop([Top EXCEPT
                                 !.history = Append(@, r[1]),
                                 !.calls = r[1].ToolCalls,
                                 !.tcIdx = 1,
                                 !.pc = IF Len(r[1].ToolCalls) = 0
                                          THEN "returned" ELSE "tools"])
                 /\ SessionAppend(Top, RoleAssistant, r[1])
    /\ UNCHANGED exceptDel

\* the tool message for call tc with the given text
TaskToolMsg(tc, text) == Message(RoleTool, "", <<>>, << ToolResult(tc.ID, text) >>)

\* a processTurn that returns the error of a tool instead of going on
AfterToolMsgAborts(fr, msg) ==
    [fr EXCEPT !.pc = "returned", !.err = "tool"]

\* the agent after the tool message of its current call: the next call, or the
\* next round of the loop
AfterToolMsg(fr, msg) ==
    [fr EXCEPT !.history = Append(@, msg),
               !.tcIdx = IF fr.tcIdx < Len(fr.calls) THEN @ + 1 ELSE 0,
               !.i = IF fr.tcIdx < Len(fr.calls) THEN @ ELSE @ + 1,
               !.pc = IF fr.tcIdx < Len(fr.calls) THEN "tools" ELSE "loop"]

\* a runner that refuses to delegate from inside a sub-agent
DelegatesTopOnly(fr, tc) ==
    tc.Name = "Task" /\ tc.Name \in fr.tools /\ tc.Args # "bad" /\ Len(agents) < 2

\* TaskTool.Execute runs the runner: the tool is registered and args["task"] is
\* a string
Delegates(fr, tc) == tc.Name = "Task" /\ tc.Name \in fr.tools /\ tc.Args # "bad"

\* the result text of a call that does not start a sub-agent
ExecuteText(fr, tc) ==
    IF tc.Name \notin fr.tools THEN "Error: Tool " \o tc.Name \o " not found"
    ELSE IF ExecuteFails(tc) THEN "Error executing tool: " \o tc.Name
    ELSE "output of " \o tc.Name

\* processTurn: one tool call that is not a delegation, and its tool message
TurnExecTool ==
    /\ Len(agents) >= 1
    /\ Top.pc = "tools"
    /\ LET tc == Top.calls[Top.tcIdx]
           msg == TaskToolMsg(tc, ExecuteText(Top, tc))
       IN  /\ ~Delegates(Top, tc)
           /\ agents' = SetTop(AfterToolMsg(Top, msg))
           /\ SessionAppend(Top, RoleTool, msg)
    /\ UNCHANGED <<toolRounds, exceptDel>>

\* processTurn calls TaskTool.Execute, which calls taskRunner: the sub-agent
\* exists and the caller waits for it
TaskExecute ==
    /\ Len(agents) >= 1
    /\ Top.pc = "tools"
    /\ Delegates(Top, Top.calls[Top.tcIdx])
    /\ agents' = Append(agents, taskRunner(Top.calls[Top.tcIdx].Args))
    /\ UNCHANGED <<appends, sessionFile>>
    /\ UNCHANGED <<toolRounds, exceptDel>>

\* RunTask after processTurn without the last message of the history
RunTaskNoOutput(fr) ==
    IF fr.err # "nil" THEN [text |-> "", err |-> fr.err]
    ELSE [text |-> "Task completed with no output", err |-> "nil"]

\* RunTask after processTurn: the error, or the content of the last message if
\* it is the assistant's
RunTask(fr) ==
    IF fr.err # "nil" THEN [text |-> "", err |-> fr.err]
    ELSE IF Len(fr.history) > 0 /\ Last(fr.history).Role = RoleAssistant
      THEN [text |-> Last(fr.history).Content, err |-> "nil"]
    ELSE [text |-> "Task completed with no output", err |-> "nil"]

\* the text processTurn puts in the tool message for what Execute returned
TaskResultText(out) ==
    IF out.err # "nil" THEN "Error executing tool: " \o out.err ELSE out.text

\* the sub-agent's processTurn has returned: RunTask, taskRunner and Execute
\* return, and the caller appends the tool message
TaskReturn ==
    /\ Len(agents) > 1
    /\ Top.pc = "returned"
    /\ LET caller == agents[Len(agents) - 1]
           tc == caller.calls[caller.tcIdx]
           msg == TaskToolMsg(tc, TaskResultText(RunTask(Top)))
       IN  /\ agents' = Append(SubSeq(agents, 1, Len(agents) - 2),
                               AfterToolMsg(caller, msg))
           /\ SessionAppend(caller, RoleTool, msg)
    /\ UNCHANGED <<toolRounds, exceptDel>>

\* Run: processTurn has returned (an error is printed); back to the prompt
RunTurnDone ==
    /\ Len(agents) = 1
    /\ Top.pc = "returned"
    /\ agents' = SetTop([Top EXCEPT !.pc = "prompt"])
    /\ UNCHANGED <<appends, sessionFile>>
    /\ UNCHANGED <<toolRounds, exceptDel>>

DelNext ==
    \/ RunSetup
    \/ RunUserInput
    \/ TurnGenerate
    \/ TurnExecTool
    \/ TaskExecute
    \/ TaskReturn
    \/ RunTurnDone

InitDel ==
    DelInit /\ AgentIdle /\ StreamIdle /\ McpIdle /\ MgrIdle /\ ShIdle /\ SanIdle /\ ToolsIdle

SpecDel == InitDel /\ [][DelNext]_vars

----------------------------------------------------------------------------
(* Properties of the delegation (SpecDel) *)

\* a step in which a Task call creates its sub-agent
SubAgentCreated == Len(agents') > Len(agents)

\* a step of a running sub-agent
SubAgentRuns == Len(agents) > 1 /\ Len(agents') = Len(agents)

\* a step in which a sub-agent's result comes back to its caller
SubAgentReturns == Len(agents') < Len(agents)

\* C26: a Task call creates one new agent whose history is exactly a system and
\* a user message made from the task text; while the sub-agent runs, the
\* histories of the agents waiting for it do not change; when its turn loop
\* has returned, the caller's history grows by exactly one tool message, for the
\* Task call, whose content is the content of the sub-agent's final assistant
\* message (the error text if the loop returned an error).
C26_TaskDelegation ==
    [][ /\ SubAgentCreated =>
             LET tc == Top.calls[Top.tcIdx]
                 sub == agents'[Len(agents')]
             IN  /\ Len(agents') = Len(agents) + 1
                 /\ SubSeq(agents', 1, Len(agents)) = agents
                 /\ tc.Name = "Task"
                 /\ Len(sub.history) = 2
                 /\ sub.history[1].Role = RoleSystem
                 /\ sub.history[1].Content
                       = "You are a sub-agent working on a specific task: " \o tc.Args
                 /\ sub.history[2].Role = RoleUser
                 /\ sub.history[2].Content = "Please perform the task: " \o tc.Args
        /\ SubAgentRuns =>
             SubSeq(agents', 1, Len(agents) - 1) = SubSeq(agents, 1, Len(agents) - 1)
        /\ SubAgentReturns =>
             LET sub == Top
                 caller == agents[Len(agents) - 1]
                 after == agents'[Len(agents')]
                 tc == caller.calls[caller.tcIdx]
             IN  /\ Len(agents') = Len(agents) - 1
                 /\ SubSeq(agents', 1, Len(agents) - 2) = SubSeq(agents, 1, Len(agents) - 2)
                 /\ sub.pc = "returned"
                 /\ Len(after.history) = Len(caller.history) + 1
                 /\ IsPrefix(caller.history, after.history)
                 /\ Last(after.history).Role = RoleTool
                 /\ Last(after.history).ToolResult[1].ToolCallID = tc.ID
                 /\ IF sub.err = "nil"
                      THEN /\ Last(sub.history).Role = RoleAssistant
                           /\ Len(Last(sub.history).ToolCalls) = 0
                           /\ Last(after.history).ToolResult[1].Content
                                 = Last(sub.history).Content
                      ELSE Last(after.history).ToolResult[1].Content
                              = "Error executing tool: " \o sub.err
      ]_vars

\* the interactive agent has the result of a sub-agent that went through a tool
\* round of its own before answering
C26_Witness ==
    /\ Len(agents) = 1
    /\ toolRounds = 2
    /\ Len(Top.history) = 4
    /\ Top.history[3].ToolCalls[1].Name = "Task"
    /\ Top.history[3].ToolCalls[1].Args = "t2"
    /\ Top.history[4].Role = RoleTool
    /\ Top.history[4].ToolResult[1].Content = "ans2"

\* C27: a sub-agent's set of tool names is the catalog of the agent whose Task
\* call created it, the Task tool and every MCP tool included.
C27_SubAgentHasCallersCatalog ==
    \A k \in 2..Len(agents) :
       /\ "Task" \in agents[k].tools
       /\ agents[k].tools = agents[k - 1].tools

\* the agent that is running is at a Task call with a string for its task
AtTaskCall ==
    /\ Len(agents) >= 1
    /\ Top.pc = "tools"
    /\ Top.calls[Top.tcIdx].Name = "Task"
    /\ Top.calls[Top.tcIdx].Args # "bad"

\* C35: nothing in the program bounds the depth of delegation: an agent at any
\* depth has the Task tool in its catalog, and its Task call starts one more
\* sub-agent whatever the number of agents already waiting; the number of
\* nested sub-agents is limited by the provider's responses alone.
C35_DelegationDepthUnbounded ==
    [][ /\ \A k \in 1..Len(agents') : "Task" \in agents'[k].tools
        /\ (AtTaskCall /\ agents' # agents) =>
             /\ Len(agents') = Len(agents) + 1
             /\ SubSeq(agents', 1, Len(agents)) = agents
             /\ Top' = taskRunner(Top.calls[Top.tcIdx].Args) ]_vars

\* as many sub-agents nested as the provider has asked for tool calls, the
\* innermost one created by a sub-agent's own Task call
C35_Witness ==
    /\ toolRounds = MaxToolRounds
    /\ Len(agents) = MaxToolRounds + 1
    /\ \A k \in 1..(Len(agents) - 1) : agents[k].pc = "tools"
    /\ Top.pc = "loop"

\* the agent that called the Task tool of the sub-agent that is running
Caller == agents[Len(agents) - 1]

\* the sub-agent's processTurn has returned an error: the provider's, or "max
\* turns reached"
SubAgentFailed ==
    /\ Len(agents) > 1
    /\ Top.pc = "returned"
    /\ Top.err \in {"gen", "maxTurns"}

\* C39: a failure inside a sub-agent never aborts the turn of the agent that
\* delegated: when the sub-agent's processTurn returns an error, the caller
\* appends a tool message for its Task call whose text is the error, sets no
\* error of its own, and goes on with its loop at its own iteration count,
\* whatever the sub-agent's count was.
C39_SubAgentFailureContained ==
    [][ (SubAgentFailed /\ agents' # agents) =>
          /\ Len(agents') = Len(agents) - 1
          /\ Top'.err = "nil"
          /\ Top'.pc \in {"tools", "loop"}
          /\ Top'.i \in {Caller.i, Caller.i + 1}
          /\ Top'.i < MaxTurnsNew
          /\ Len(Top'.history) = Len(Caller.history) + 1
          /\ SubSeq(Top'.history, 1, Len(Caller.history)) = Caller.history
          /\ Last(Top'.history).Role = RoleTool
          /\ Last(Top'.history).ToolResult[1].ToolCallID = Caller.calls[Caller.tcIdx].ID
          /\ Last(Top'.history).ToolResult[1].Content =
                "Error executing tool: " \o Top.err ]_vars

\* the interactive agent has finished its turn with an answer after its
\* sub-agent ran out of iterations
C39_Witness ==
    /\ Len(agents) = 1
    /\ Top.pc = "returned"
    /\ Top.err = "nil"
    /\ Top.i = 1
    /\ Len(Top.history) = 5
    /\ Top.history[3].ToolCalls[1].Name = "Task"
    /\ Top.history[4].ToolResult[1].Content = "Error executing tool: maxTurns"
    /\ Top.history[5].Role = RoleAssistant

----------------------------------------------------------------------------
(* Properties of the session log (SpecDel) *)

\* the agent that has the session: the interactive one
Logging == agents[1]

\* the Append calls that mirror history h message by message, the system
\* prompt New starts it with left out
Mirror(h) ==
    [p \in 1..(Len(h) - 1) |-> [role |-> h[p + 1].Role, msg |-> h[p + 1]]]

\* a step in which Append was called and returned an error
AppendFailed == Len(appends') > Len(appends) /\ sessionFile' = sessionFile

\* C29: for an agent with a session, the calls of Append are, one for one and in
\* order, the user, assistant and tool messages appended to its history; and a
\* step in which Append returns an error leaves the turn as a successful call
\* leaves it: the message is in the history, no error is set, and the loop is at
\* the next tool call, the next round, or its normal return after a message
\* without tool calls.
C29_SessionLogMirrorsHistory ==
    [][ /\ Logging'.session => appends' = Mirror(Logging'.history)
        /\ AppendFailed =>
             /\ Len(agents') = 1
             /\ Logging'.err = "nil"
             /\ Len(Logging'.history) = Len(Logging.history) + 1
             /\ \/ Logging'.pc \in {"loop", "tools"}
                \/ /\ Logging'.pc = "returned"
                   /\ Last(Logging'.history).Role = RoleAssistant
                   /\ Len(Last(Logging'.history).ToolCalls) = 0
      ]_vars

\* a turn with a delegated task has ended normally although the Append calls
\* for the user message and for the Task call's tool message failed
C29_Witness ==
    /\ Len(agents) = 1
    /\ Logging.session
    /\ Logging.pc = "prompt"
    /\ Logging.err = "nil"
    /\ Len(appends) = 4
    /\ appends[1].role = RoleUser
    /\ appends[3].role = RoleTool
    /\ appends[2].msg.ToolCalls[1].Name = "Task"
    /\ sessionFile = 2

----------------------------------------------------------------------------
(* Properties of the decoders on malformed input (SpecStream) *)

\* the argument text json.Unmarshal accepts as a JSON object
ValidJSON(buf) == buf = <<"{", "x", "}">>

\* the step appends a tool call made from builder k: its id, its name, and its
\* arguments if they parse, an empty map if they do not
Emitted(k) ==
    \E j \in (Len(calls) + 1)..Len(calls') :
       /\ calls'[j].ID = builders[k].ID
       /\ calls'[j].Name = builders[k].Name
       /\ calls'[j].Args = IF ValidJSON(builders[k].Buf) THEN {"x"} ELSE {}

\* C30: a line whose payload cannot be parsed changes nothing and the decoder
\* reads on; a builder that is finished (Anthropic: at its content_block_stop;
\* OpenAI: after the read loop) becomes a tool call whatever its argument text
\* is, with an empty argument map when the text is not valid JSON; and the call
\* ends with an error only on an explicit error event or a failed read.
C30_MalformedNeverAborts ==
    [][ /\ (nEvents' = nEvents + 1 /\ lastLine' = "malformed") =>
             /\ sstatus' = "reading"
             /\ <<content, sent, builders, calls>>' = <<content, sent, builders, calls>>
        /\ adapter = "anthropic" =>
             \A k \in (DOMAIN builders) \ (DOMAIN builders') :
                Emitted(k) /\ sstatus' = "reading"
        /\ ( /\ adapter \in {"openai_chat", "openai_responses"}
             /\ sstatus = "finalize" ) =>
             /\ sstatus' = "returned"
             /\ \A k \in DOMAIN builders : Emitted(k)
        /\ (sstatus = "reading" /\ sstatus' = "failed") =>
             lastLine' \in {"error", "readerr"}
      ]_vars

\* the Anthropic decoder has made a tool call with an empty argument map from
\* the argument text "{", has then passed over a malformed line, and reads on
C30_Witness ==
    /\ adapter = "anthropic"
    /\ sstatus = "reading"
    /\ lastLine = "malformed"
    /\ Len(calls) = 1
    /\ calls[1].Args = {}
    /\ Len(groups) = 1
    /\ groups[1].Buf = <<"{">>

----------------------------------------------------------------------------
(* Properties of the decoders on errors of the backend (SpecStream) *)

\* C31: in every adapter, an HTTP status other than 200 makes GenerateStream
\* return an error with nothing forwarded and no message built; an explicit
\* error event in the stream makes it return an error; and once it has
\* returned the error no further event is processed.
C31_ErrorsAbortTheCall ==
    [][ /\ statusCode' \notin {0, 200} =>
             /\ sstatus' = "failed"
             /\ sent' = <<>> /\ content' = <<>> /\ calls' = <<>>
        /\ (nEvents' = nEvents + 1 /\ lastLine' = "error") => sstatus' = "failed"
        /\ sstatus = "failed" => streamVars' = streamVars
      ]_vars

----------------------------------------------------------------------------
(* Properties of the agent loop on a failed provider call (SpecAgent) *)

\* processTurn is about to test a provider call that failed
CallFailed == apc = "check" /\ (genErr \/ resp = <<>>)

\* C32: the history does not change while a provider call is under way, and
\* when processTurn finds that the call has failed (an error, or no response)
\* it returns the error in that step with the history, the executed tools and
\* the iteration count as they were: nothing is appended and no tool runs.
C32_FailedCallLeavesHistory ==
    [][ /\ (apc \in {"display", "check"} /\ apc' \in {"display", "check"}) =>
             history' = history
        /\ (CallFailed /\ apc' # "check") =>
             /\ apc' = "returned"
             /\ turnErr' \in {"genErr", "noResp"}
             /\ history' = history
             /\ execLog' = execLog
             /\ toolErrs' = toolErrs
             /\ i' = i
      ]_vars

\* a turn that went through a round of tool calls has returned the error of its
\* second provider call; the history ends with the tool results of the round
C32_Witness ==
    /\ apc = "returned"
    /\ turnErr = "genErr"
    /\ nCalls = 2
    /\ Last(history).Role = RoleTool
    /\ Last(respLog) = "error"

----------------------------------------------------------------------------
(* Properties of the ids of the ShellManager (SpecSh) *)

\* the number a string of decimal digits stands for
RECURSIVE ParseID(_)
ParseID(id) ==
    IF Len(id) = 0 THEN 0
    ELSE 10 * ParseID(SubSeq(id, 1, Len(id) - 1)) + id[Len(id)]

\* C33: the id a Start call returns is numerically greater than the id of
\* every record in the table before it, each record is at the key that is its
\* own id, no step removes a record, and GetOutput and Kill answer 'not found'
\* only for an id that no Start has returned.
C33_IdsIncreaseRecordsStay ==
    [][ /\ ret'.kind = "start" =>
             /\ \A id \in DOMAIN processes : ParseID(ret'.id) > ParseID(id)
             /\ ret'.id \in DOMAIN processes'
        /\ \A id \in DOMAIN processes' : processes'[id].ID = id
        /\ \A id \in DOMAIN processes :
              /\ id \in DOMAIN processes'
              /\ processes'[id].Cmd = processes[id].Cmd
        /\ ret'.err = "notfound" => ret'.id \notin DOMAIN processes
      ]_vars

\* two Start calls have returned, and a later call for the first id has found
\* its record
C33_Witness ==
    /\ Cardinality(DOMAIN processes) = 2
    /\ ret.kind \in {"get", "kill"}
    /\ ret.id = <<1>>
    /\ ret.err # "notfound"

----------------------------------------------------------------------------
(* A call of an MCP-backed tool: Client.CallTool, Manager.CallTool,         *)
(* MCPTool.Execute and the tool message of processTurn                      *)

\* content blocks one tool result has at most
MaxBlocks == 2

\* mcp.ToolContent
ToolContent(type, text) == [Type |-> type, Text |-> text]

\* the content blocks a server sends: text and other types, with or without text
ContentBlocks ==
    { ToolContent(ty, tx) : ty \in {"text", "image"}, tx \in {"", "a", "b"} }

\* what a tools/call can meet: no client for the server in m.clients, a
\* JSON-RPC error, or a result
CallResponses ==
    { CallResponse("notconnected", <<>>, FALSE), CallResponse("rpcerror", <<>>, FALSE) }
    \cup { CallResponse("result", blocks, e) :
             blocks \in UNION { [1..n -> ContentBlocks] : n \in 0..MaxBlocks },
             e \in BOOLEAN }

\* the MCP tool the call is for
CalledTool == ToolCall(<<1, 1>>, "mcp__fs__read", "good")

CallInit ==
    /\ callPc = "call"
    /\ callResp \in CallResponses
    /\ callOut = Out("", "nil")
    /\ callMsg = <<>>

\* Client.CallTool: sendRequest returns the response or "RPC error ..."; the
\* result is unmarshalled into a CallToolResult
ClientCallTool ==
    /\ callPc = "call"
    /\ callResp.kind # "notconnected"
    /\ callPc' = "client"
    /\ callOut' = IF callResp.kind = "rpcerror"
                    THEN Out("", "RPC error") ELSE Out("", "nil")
    /\ UNCHANGED <<callResp, callMsg>>
    /\ UNCHANGED exceptCall

\* output += content.Text for the blocks of every type
RECURSIVE ConcatAllBlocks(_)
ConcatAllBlocks(blocks) ==
    IF blocks = <<>> THEN ""
    ELSE Head(blocks).Text \o ConcatAllBlocks(Tail(blocks))

\* for _, content := range result.Content { if content.Type == "text" {
\* output += content.Text } }
RECURSIVE ConcatText(_)
ConcatText(blocks) ==
    IF blocks = <<>> THEN ""
    ELSE (IF Head(blocks).Type = "text" THEN Head(blocks).Text ELSE "")
            \o ConcatText(Tail(blocks))

\* Manager.CallTool when the server is not in m.clients
ManagerNoClient ==
    /\ callPc = "call"
    /\ callResp.kind = "notconnected"
    /\ callPc' = "manager"
    /\ callOut' = Out("", "server not connected")
    /\ UNCHANGED <<callResp, callMsg>>
    /\ UNCHANGED exceptCall

\* Manager.CallTool after client.CallTool: the error, or the text of the
\* result, which is an error when result.IsError
ManagerCallTool ==
    /\ callPc = "client"
    /\ callPc' = "manager"
    /\ callOut' =
          IF callOut.err # "nil" THEN Out("", callOut.err)
          ELSE IF callResp.IsError
            THEN Out("", "tool error: " \o ConcatText(callResp.Content))
          ELSE Out(ConcatText(callResp.Content), "nil")
    /\ UNCHANGED <<callResp, callMsg>>
    /\ UNCHANGED exceptCall

\* MCPTool.Execute after manager.CallTool
MCPToolExecute ==
    /\ callPc = "manager"
    /\ callPc' = "executed"
    /\ callOut' =
          IF callOut.err # "nil"
            THEN Out("", "MCP tool " \o CalledTool.Name \o " failed: " \o callOut.err)
            ELSE callOut
    /\ UNCHANGED <<callResp, callMsg>>
    /\ UNCHANGED exceptCall

\* processTurn after tool.Execute: the result text, the tool message, and on to
\* the next tool call
ToolMessageAppended ==
    /\ callPc = "executed"
    /\ callPc' = "next"
    /\ callMsg' = << TaskToolMsg(CalledTool, TaskResultText(callOut)) >>
    /\ UNCHANGED <<callResp, callOut>>
    /\ UNCHANGED exceptCall

CallNext ==
    \/ ClientCallTool
    \/ ManagerNoClient
    \/ ManagerCallTool
    \/ MCPToolExecute
    \/ ToolMessageAppended

InitCall ==
    /\ CallInit /\ BashIdle /\ ReadIdle
    /\ AgentIdle /\ StreamIdle /\ McpIdle /\ MgrIdle /\ ShIdle /\ SanIdle /\ DelIdle

SpecCall == InitCall /\ [][CallNext]_vars

\* the texts of the text blocks of a result, in order
TextBlocks(blocks) == SelectSeq(blocks, LAMBDA b : b.Type = "text")

RECURSIVE Joined(_)
Joined(blocks) ==
    IF blocks = <<>> THEN "" ELSE Joined(SubSeq(blocks, 1, Len(blocks) - 1)) \o Last(blocks).Text

\* the call succeeded: a result that is not flagged as an error
CallSucceeded == callResp.kind = "result" /\ ~callResp.IsError

\* C34: when tools/call meets a JSON-RPC error or a result flagged isError,
\* Execute returns an error and no text, and processTurn appends a tool message
\* whose text is the error and goes on to the next call; when the call
\* succeeds Execute returns the texts of the result's text blocks, in order and
\* nothing else, and that is the text of the tool message
C34_McpCallOutcome ==
    /\ callPc \in {"executed", "next"} =>
         IF CallSucceeded
           THEN callOut = Out(Joined(TextBlocks(callResp.Content)), "nil")
           ELSE callOut.err # "nil" /\ callOut.text = ""
    /\ callPc = "next" =>
         /\ Len(callMsg) = 1
         /\ callMsg[1].Role = RoleTool
         /\ Len(callMsg[1].ToolResult) = 1
         /\ callMsg[1].ToolResult[1].ToolCallID = CalledTool.ID
         /\ callMsg[1].ToolResult[1].Content =
              IF CallSucceeded THEN callOut.text
              ELSE "Error executing tool: " \o callOut.err

\* a successful result whose text block follows a block of another type,
\* answered by a tool message with the text block alone
C34_Witness ==
    /\ callPc = "next"
    /\ callResp.kind = "result"
    /\ ~callResp.IsError
    /\ callResp.Content = << ToolContent("image", "a"), ToolContent("text", "b") >>
    /\ callMsg[1].ToolResult[1].Content = "b"

----------------------------------------------------------------------------
(* The Bash tool's working directory (pkg/tools BashTool.Execute)           *)

\* BashTools at most: the interactive agent's and one sub-agent's
MaxBashTools == 2
\* Execute calls in one run at most
MaxBashCalls == 3

\* the directories that exist
Dirs == {"/w", "/w/sub", "/tmp", "/home"}

\* the absolute paths among the paths of the model
AbsolutePaths == Dirs \cup {"/missing"}

\* what follows "cd " in a command: absolute and relative paths, a path in
\* quotes, and a word the shell expands
CdArgs == {"/tmp", "\"/tmp\"", "/missing", "sub", "~"}

\* strings.Trim(path, "\"'")
TrimQuotes(arg) == IF arg = "\"/tmp\"" THEN "/tmp" ELSE arg

\* the word as bash reads it: quotes removed and the tilde expanded
ShellWord(arg) ==
    IF arg = "\"/tmp\"" THEN "/tmp" ELSE IF arg = "~" THEN "/home" ELSE arg

\* the directory a path names for a process or shell whose directory is base
Resolve(base, path) == IF path \in AbsolutePaths THEN path ELSE base \o "/" \o path

\* NewBashTool, called by New for the agent and for every sub-agent
NewBashTool ==
    /\ Len(bashCwd) < MaxBashTools
    /\ bashCwd' = Append(bashCwd, procCwd)
    /\ UNCHANGED <<procCwd, bashCall, bashCalls>>
    /\ UNCHANGED exceptBash

BashInit ==
    /\ procCwd = "/w"
    /\ bashCwd = << "/w" >>
    /\ bashCall = BashCall(0, "", "", FALSE, "", "")
    /\ bashCalls = 0

\* the part of Execute after the cd heuristic: bash -c cmdStr with cmd.Dir =
\* t.cwd, started in the background or run to its end
RunCommand(t, cmd, arg, bg) ==
    LET dir == bashCwd[t]
        out == IF bg THEN "Started background process"
               ELSE IF cmd = "pwd" THEN dir
               ELSE IF Resolve(dir, ShellWord(arg)) \in Dirs THEN ""
               ELSE "Error: exit status 1"
    IN  /\ bashCall' = BashCall(t, cmd, arg, bg, dir, out)
        /\ UNCHANGED <<procCwd, bashCwd>>

\* the cd heuristic of Execute: os.Chdir(path) of the process, and on success
\* t.cwd = os.Getwd() and the early return
Chdir(t, arg) ==
    /\ Resolve(procCwd, TrimQuotes(arg)) \in Dirs
    /\ procCwd' = Resolve(procCwd, TrimQuotes(arg))
    /\ bashCwd' = [bashCwd EXCEPT ![t] = Resolve(procCwd, TrimQuotes(arg))]
    /\ bashCall' = BashCall(t, "cd", arg, FALSE, "", "Changed directory to")

\* BashTool.Execute for "cd <arg>" and for "pwd", in the foreground or in the
\* background
BashExecute ==
    /\ bashCalls < MaxBashCalls
    /\ bashCalls' = bashCalls + 1
    /\ \E t \in 1..Len(bashCwd), bg \in BOOLEAN :
          \/ \E arg \in CdArgs :
                IF Resolve(procCwd, TrimQuotes(arg)) \in Dirs
                  THEN Chdir(t, arg)
                  ELSE RunCommand(t, "cd", arg, bg)
          \/ RunCommand(t, "pwd", "", bg)
    /\ UNCHANGED exceptBash

BashNext ==
    \/ NewBashTool
    \/ BashExecute

InitBash ==
    /\ BashInit /\ CallIdle /\ ReadIdle
    /\ AgentIdle /\ StreamIdle /\ McpIdle /\ MgrIdle /\ ShIdle /\ SanIdle /\ DelIdle

SpecBash == InitBash /\ [][BashNext]_vars

\* the step is an Execute call
Executes == bashCalls' # bashCalls

\* the directory a cd command names for the tool that runs it
CdTarget == Resolve(bashCwd[bashCall'.tool], ShellWord(bashCall'.arg))

\* C36: a BashTool keeps its working directory across calls: a cd to a
\* directory that exists makes it the tool's directory, a cd that fails and
\* every other command leave it as it was, every command runs in the tool's
\* directory, and no call changes the directory of another tool.
C36_WorkingDirectoryKept ==
    [][ Executes =>
          LET t == bashCall'.tool
          IN  /\ bashCwd'[t] = IF bashCall'.cmd = "cd" /\ CdTarget \in Dirs
                                 THEN CdTarget ELSE bashCwd[t]
              /\ bashCall'.cmd = "pwd" => bashCall'.dir = bashCwd[t]
              /\ \A u \in 1..Len(bashCwd) : u # t => bashCwd'[u] = bashCwd[u] ]_vars

\* C36 for a single BashTool and paths the shell does not expand
C36_LiteralPathsOneTool ==
    [][ (Executes /\ Len(bashCwd) = 1 /\ bashCall'.arg # "~") =>
          LET t == bashCall'.tool
          IN  /\ bashCwd'[t] = IF bashCall'.cmd = "cd" /\ CdTarget \in Dirs
                                 THEN CdTarget ELSE bashCwd[t]
              /\ bashCall'.cmd = "pwd" => bashCall'.dir = bashCwd[t] ]_vars

----------------------------------------------------------------------------
(* The Read tool (pkg/tools ReadTool.Execute): the selection of lines by    *)
(* offset, limit and tail                                                   *)

\* lines a file has at most (strings.Split gives at least one)
MaxFileLines == 3

\* the values of offset, limit and tail: negative, zero, inside the file, its
\* length and beyond
ArgValues == (0 - 1)..(MaxFileLines + 1)

\* the lines of a file of n lines; the text of a line is its number in the file
FileLines(n) == [k \in 1..n |-> k]

ReadInit ==
    /\ readArgs \in { ReadArgs(o, l, t, n) :
                        o \in ArgValues, l \in ArgValues, t \in ArgValues,
                        n \in 1..MaxFileLines }
    /\ readOut = ReadOut("none", 0, <<>>, 0, 0)

\* the Go slice expression s[a:b]: <<the slice>>, or <<>> for the run-time panic
\* "slice bounds out of range"
Slice(s, a, b) ==
    IF 0 <= a /\ a <= b /\ b <= Len(s) THEN << SubSeq(s, a + 1, b) >> ELSE <<>>

\* the output for the selected lines: every line with startLineNum + i in front,
\* the lines skipped before them and the lines left after them (0: no such note)
Output(start, selected, truncatedStart, truncatedEnd, total) ==
    LET remaining == total - (start - 1 + Len(selected))
    IN  ReadOut("result", start,
                [k \in 1..Len(selected) |-> <<start + k - 1, selected[k]>>],
                IF truncatedStart THEN start - 1 ELSE 0,
                IF truncatedEnd /\ remaining > 0 THEN remaining ELSE 0)

\* Execute after ReadFile: the lines selected from the end (tail > 0) or by
\* offset and limit
Select(a) ==
    LET lines == FileLines(a.total)
        totalLines == a.total
    IN  IF a.tail > 0
        THEN IF a.tail >= totalLines
               THEN Output(1, lines, FALSE, FALSE, totalLines)
             ELSE LET sl == Slice(lines, totalLines - a.tail, totalLines)
                  IN  IF sl = <<>> THEN ReadOut("panic", 0, <<>>, 0, 0)
                      ELSE Output(totalLines - a.tail + 1, sl[1], TRUE, FALSE, totalLines)
        ELSE IF a.offset >= totalLines
               THEN ReadOut("beyond", 0, <<>>, 0, 0)
             ELSE LET e == a.offset + a.limit
                      endIdx == IF e > totalLines THEN totalLines ELSE e
                      sl == Slice(lines, a.offset, endIdx)
                  IN  IF sl = <<>> THEN ReadOut("panic", 0, <<>>, 0, 0)
                      ELSE Output(a.offset + 1, sl[1], a.offset > 0, e <= totalLines,
                                  totalLines)

\* ReadTool.Execute when ioutil.ReadFile succeeds
ReadExecute ==
    /\ readOut.kind = "none"
    /\ readOut' = Select(readArgs)
    /\ UNCHANGED readArgs
    /\ UNCHANGED exceptRead

\* ReadTool.Execute when ioutil.ReadFile returns an error
ReadFileFails ==
    /\ readOut.kind = "none"
    /\ readOut' = ReadOut("error", 0, <<>>, 0, 0)
    /\ UNCHANGED readArgs
    /\ UNCHANGED exceptRead

ReadNext ==
    \/ ReadExecute
    \/ ReadFileFails

InitRead ==
    /\ ReadInit /\ CallIdle /\ BashIdle
    /\ AgentIdle /\ StreamIdle /\ McpIdle /\ MgrIdle /\ ShIdle /\ SanIdle /\ DelIdle

SpecRead == InitRead /\ [][ReadNext]_vars

\* the smaller of two numbers
Min(a, b) == IF a < b THEN a ELSE b

\* the numbers of the lines offset+1 .. min(offset+limit, total)
ExpectedLines ==
    { k \in 1..readArgs.total :
        readArgs.offset + 1 <= k /\ k <= Min(readArgs.offset + readArgs.limit, readArgs.total) }

\* the lines of the result are exactly the lines numbered in ns, in order, each
\* with its own number in front
ReturnsLines(ns) ==
    /\ Len(readOut.lines) = Cardinality(ns)
    /\ \A k \in 1..Len(readOut.lines) :
          /\ readOut.lines[k][1] = readOut.lines[k][2]
          /\ readOut.lines[k][1] \in ns
          /\ k > 1 => readOut.lines[k][1] = readOut.lines[k - 1][1] + 1

\* C40: for every offset, limit and tail, negative and zero included, and every
\* length of the file, Execute returns a result or an error and never accesses
\* a slice out of range; with tail <= 0 the result has exactly the lines
\* offset+1 .. min(offset+limit, total), each with its true number.
C40_ReadTotalAndExact ==
    readOut.kind # "none" =>
        /\ readOut.kind \in {"result", "beyond", "error"}
        /\ (readOut.kind = "result" /\ readArgs.tail <= 0) => ReturnsLines(ExpectedLines)
        /\ (readOut.kind = "beyond" /\ readArgs.tail <= 0) => ExpectedLines = {}

\* C40 for an offset and a limit that are not negative
C40_NonNegativeArguments ==
    (readOut.kind # "none" /\ readArgs.offset >= 0 /\ readArgs.limit >= 0) =>
        /\ readOut.kind \in {"result", "beyond", "error"}
        /\ (readOut.kind = "result" /\ readArgs.tail <= 0) => ReturnsLines(ExpectedLines)
        /\ (readOut.kind = "beyond" /\ readArgs.tail <= 0) => ExpectedLines = {}


====
